---------------------------- MODULE Spec2Model ----------------------------
(***************************************************************************)
(* A model of sniff, a command line tool that estimates how likely a git   *)
(* commit was written by an AI assistant.                                  *)
(*                                                                         *)
(* Numbers.  The program computes in binary floating point.  The model     *)
(* computes exactly, in integers:                                          *)
(*   - a detector score is an integer number of hundredths (0 .. 100);     *)
(*     every detector of the program adds up multiples of 0.05;            *)
(*   - the aggregator's running sum is an integer number of ten-           *)
(*     thousandths (a score in hundredths times a weight in hundredths);   *)
(*   - round(x, 2) of a value that lies exactly half way between two       *)
(*     hundredths goes up or down depending on the binary representation   *)
(*     of the float; the model leaves that direction open (RoundUp).       *)
(* A reason string "a; b" is the sequence <<"a", "b">> of its parts; the   *)
(* values formatted into a reason are left out of the part.                *)
(***************************************************************************)
EXTENDS Integers, Sequences, FiniteSets, TLC

VARIABLES
    pc,         \* the position of the run
    aggIn,      \* ScoreAggregator.compute: the arguments of the call
    aggOut,     \* ScoreAggregator.compute: the returned dict
    aggIn2,     \* the arguments of a second call of compute
    aggOut2,    \* the dict the second call returns
    pathExists, \* path names something in the file system
    repoValid,  \* git.Repo(path) finds a repository there
    history,    \* the commits of the repository, newest first
    count,      \* the number of commits to scan
    useLlm,     \* use_llm
    seed,       \* the key of Python's string hash in this process
    commits,    \* commits: the scanned window, newest first
    profiles,   \* author_baseline.profiles
    velocities, \* commit_velocities
    times,      \* author_commit_times
    burst,      \* burst_commits
    index,      \* simhash_index.index
    pos,        \* the place in commits of the next commit to analyze
    results,    \* results: the list the loop fills and the caller receives
    finalRes,   \* what aggregator.compute returned, one dict per result
    llmCalls,   \* the calls of llm_analyzer.analyze, with their answers
    err,        \* the error returned in place of results, "" for none
    devIn,      \* analyze_deviation: the arguments of the call
    devOut,     \* analyze_deviation: the returned dict
    leaderboard,\* stats_cmd: leaderboard
    simIn,      \* SimHashIndex: the last call, its method and its commit
    simOut,     \* SimHashIndex.analyze: the returned dict
    matches,    \* SimHashIndex.find_duplicates: the returned list
    structIn,   \* analyze_structural_regularity: what is measured on diff
    structOut   \* analyze_structural_regularity: the returned dict

aggVars == <<aggIn, aggOut, aggIn2, aggOut2>>

devVars == <<devIn, devOut>>

scanInputs == <<pathExists, repoValid, history, count, useLlm, seed>>

scanVars ==
    <<commits, profiles, velocities, times, burst, index, pos, results,
      finalRes, llmCalls, err>>

callVars == <<simIn, simOut, matches, structIn, structOut>>

vars == <<pc, aggVars, scanInputs, scanVars, devVars, leaderboard, callVars>>

\* ------------------------------------------------------------------------
\* Small helpers
\* ------------------------------------------------------------------------

Min(a, b) == IF a < b THEN a ELSE b

Max(a, b) == IF a > b THEN a ELSE b

RECURSIVE SumSeq(_)
SumSeq(s) == IF s = <<>> THEN 0 ELSE Head(s) + SumSeq(Tail(s))

RECURSIVE Concat(_)
Concat(ss) == IF ss = <<>> THEN <<>> ELSE Head(ss) \o Concat(Tail(ss))

Range(s) == {s[i] : i \in 1..Len(s)}

\* A DetectorResult {"score": .., "reason": ..}.
Res(score, reason) == [score |-> score, reason |-> reason]

\* ------------------------------------------------------------------------
\* detectors/scoring.py : ScoreAggregator
\* ------------------------------------------------------------------------

\* self.weights, in hundredths.
WeightText == 10
WeightCode == 50
WeightStructural == 15
WeightSimilarity == 15
WeightSemantic == 10
WeightBaseline == 15

\* What compute() puts in place of an optional sub-result that is missing.
DefaultRes == Res(0, <<>>)

\* A velocity in lines per minute is the fraction num / den (den > 0).
Velocity(num, den) == [num |-> num, den |-> den]

\* velocity_lpm > k
VelocityAbove(v, k) == v.num > k * v.den

\* The six sub-results in the order compute() lists them.
SubResults(in) ==
    <<in.text, in.code, in.structural, in.similarity, in.semantic, in.baseline>>

AllScores(in) == [i \in 1..6 |-> SubResults(in)[i].score]

WeightedBase(in) ==
      in.text.score * WeightText
    + in.code.score * WeightCode
    + in.structural.score * WeightStructural
    + in.similarity.score * WeightSimilarity
    + in.semantic.score * WeightSemantic
    + in.baseline.score * WeightBaseline

\* v_score, in hundredths.
\* A v_score with the two steps exchanged.
VScoreSwapped(v) ==
    IF VelocityAbove(v, 50) THEN 60
    ELSE IF VelocityAbove(v, 20) THEN 100
    ELSE 0

VScore(v) ==
    IF VelocityAbove(v, 50) THEN 100
    ELSE IF VelocityAbove(v, 20) THEN 60
    ELSE 0

VelocityBonus(v) == VScore(v) * 15

BurstBonus(burstScore) == IF burstScore > 0 THEN 1000 ELSE 0

\* Amplification that takes a sub-score of exactly 0.5 as not yet strong.
AmplificationAbove(in) ==
    IF \E i \in 1..6 : AllScores(in)[i] > 50 THEN 2000 ELSE 0

Amplification(in) ==
    IF \E i \in 1..6 : AllScores(in)[i] >= 50 THEN 2000 ELSE 0

SuspectEngines(in) == Cardinality({i \in 1..6 : AllScores(in)[i] >= 30})

\* A consensus bonus that asks for three suspect engines.
ConsensusBonusFromThree(in) ==
    IF SuspectEngines(in) >= 3 THEN 2500
    ELSE IF SuspectEngines(in) = 1 THEN 1000
    ELSE 0

\* A consensus bonus that is also paid when no engine is suspect.
ConsensusBonusAtMostOne(in) ==
    IF SuspectEngines(in) >= 2 THEN 2500 ELSE 1000

ConsensusBonus(in) ==
    IF SuspectEngines(in) >= 2 THEN 2500
    ELSE IF SuspectEngines(in) = 1 THEN 1000
    ELSE 0

\* final_score before the clamp, in ten-thousandths.
RawScore(in) ==
      WeightedBase(in) + VelocityBonus(in.velocity) + BurstBonus(in.burst)
    + Amplification(in) + ConsensusBonus(in)

\* A final score that is not clamped.
FinalScoreUnclamped(in) == RawScore(in)

\* final_score = min(final_score, 1.0)
FinalScore(in) == Min(RawScore(in), 10000)

\* _noise
Noise ==
    { "No strong text signals", "Organic code complexity",
      "Organic structural variation", "No near-duplicate commits found",
      "Natural human-style message-code divergence",
      "Style consistent with author baseline", "No baseline available",
      "Insufficient baseline history", "No strong similarity signals",
      "Too short for semantic analysis", "Missing message or diff",
      "Diff too small for structural analysis",
      "No strong AI signals detected" }

FallbackReason == "No strong AI signals detected"

VelocityReason(v) ==
    IF VelocityAbove(v, 50) THEN <<"Impossible human typing velocity">>
    ELSE IF VelocityAbove(v, 20) THEN <<"Abnormally high commit velocity">>
    ELSE <<>>

BurstReason(burstScore) ==
    IF burstScore > 0
    THEN <<"Commit-burst: rapid large-diff sequence within 10 min window">>
    ELSE <<>>

\* The joined reason string is "" or one of the _noise strings.
IsNoiseReason(reason) ==
    \/ reason = <<>>
    \/ Len(reason) = 1 /\ reason[1] \in Noise

\* The parts one sub-result contributes to the reasons list.
ReasonParts(res) ==
    IF ~IsNoiseReason(res.reason) /\ res.score > 0
    THEN SelectSeq(res.reason, LAMBDA part : part \notin Noise)
    ELSE <<>>

CollectedReasons(in) ==
       Concat([i \in 1..6 |-> ReasonParts(SubResults(in)[i])])
    \o VelocityReason(in.velocity)
    \o BurstReason(in.burst)

Reasons(in) ==
    IF CollectedReasons(in) = <<>> THEN <<FallbackReason>>
    ELSE CollectedReasons(in)

\* The band of a final_score in ten-thousandths.
Band(final) ==
    IF final < 2000 THEN "Likely Human"
    ELSE IF final < 5000 THEN "Mixed / Uncertain"
    ELSE "Likely AI-assisted"

\* round(final_score, 2), in hundredths.  roundUp is the direction a value
\* exactly half way between two hundredths is rounded to.
Round2(final, roundUp) ==
    IF final % 100 = 50
    THEN (IF roundUp THEN final \div 100 + 1 ELSE final \div 100)
    ELSE (final + 50) \div 100

Compute(in, roundUp) ==
    [ score   |-> Round2(FinalScore(in), roundUp),
      band    |-> Band(FinalScore(in)),
      reasons |-> Reasons(in) ]

\* ------------------------------------------------------------------------
\* Commits, messages and diffs
\*
\* A diff (the added lines of a commit, git_client.get_commit_diff) and a
\* commit message are texts.  The model names a few texts and records, for
\* each, what the program's text-measuring helpers (line splitting, regular
\* expressions, the Python parser) return on it.
\* ------------------------------------------------------------------------

BaseDiff ==
    [ lines        |-> 0,       \* non-blank lines
      blank        |-> 0,       \* blank lines
      comments     |-> 0,       \* baseline._comment_ratio, numerator
      lvar         |-> 0,       \* baseline._line_length_variance, in tenths
      naming       |-> "mixed", \* baseline._detect_naming_style
      fns          |-> <<>>,    \* baseline._extract_function_lengths
      tokens       |-> <<>>,    \* structural._tokenize
      rawTokens    |-> 0,       \* identifiers found by semantic.analyze
      cv           |-> 0,       \* structural._line_stats: cv, in hundredths
      range        |-> 0,       \* (p90 - p10) / (mean + 1), in hundredths
      gaps         |-> 0,       \* number of blank-line gaps
      gapCv        |-> 0,       \* cv of the gap lengths, in hundredths
      parses       |-> FALSE,   \* ast.parse(diff) succeeds
      docstrings   |-> 0,
      varsAssigned |-> 0,
      slashOrHash  |-> 0,       \* lines starting with # or //
      consoleLog   |-> FALSE,   \* "console.log" in diff and "TODO" not in diff
      react        |-> FALSE ]  \* "useState" in diff and "useEffect" in diff

\* Token lists; a token is a small number.
TokensA == <<1, 2, 3, 4, 5, 1, 2, 3, 4, 6>>
TokensB == <<7, 8, 9, 7, 8, 9, 7, 8, 9, 7, 8, 9>>
TokensShort == <<1, 2, 3, 4, 5, 6, 7>>
TokensNear == <<8, 2, 5, 4, 9, 8, 6, 5, 3, 9, 4>>
TokensModerate == <<7, 2, 2, 3, 4, 3, 4, 1, 2, 5, 3>>

DiffNames ==
    {"empty", "log6", "dup12", "dupB12", "uniform30", "s10", "s20", "s21",
     "s30", "s100", "styled30", "near12", "mod12"}

Diffs ==
    [ d \in DiffNames |->
        CASE d = "empty" -> BaseDiff
          [] d = "log6" ->
                [BaseDiff EXCEPT !.lines = 6, !.tokens = TokensShort,
                                 !.rawTokens = 7, !.consoleLog = TRUE,
                                 !.lvar = 60, !.cv = 60, !.range = 90]
          [] d = "dup12" ->
                [BaseDiff EXCEPT !.lines = 12, !.tokens = TokensA,
                                 !.rawTokens = 10, !.lvar = 80, !.cv = 60,
                                 !.range = 90, !.naming = "snake_case",
                                 !.fns = <<4>>]
          [] d = "dupB12" ->
                [BaseDiff EXCEPT !.lines = 12, !.tokens = TokensB,
                                 !.rawTokens = 12, !.lvar = 80, !.cv = 60,
                                 !.range = 90, !.naming = "snake_case",
                                 !.fns = <<4>>]
          [] d = "near12" ->
                [BaseDiff EXCEPT !.lines = 12, !.tokens = TokensNear,
                                 !.rawTokens = 11, !.lvar = 80, !.cv = 60,
                                 !.range = 90, !.naming = "snake_case",
                                 !.fns = <<4>>]
          [] d = "mod12" ->
                [BaseDiff EXCEPT !.lines = 12, !.tokens = TokensModerate,
                                 !.rawTokens = 11, !.lvar = 80, !.cv = 60,
                                 !.range = 90, !.naming = "snake_case",
                                 !.fns = <<4>>]
          [] d = "uniform30" ->
                [BaseDiff EXCEPT !.lines = 30, !.tokens = TokensA,
                                 !.rawTokens = 10, !.lvar = 35, !.cv = 5,
                                 !.range = 10, !.naming = "snake_case"]
          [] d = "s10" ->
                [BaseDiff EXCEPT !.lines = 10, !.lvar = 80, !.cv = 60,
                                 !.range = 90, !.naming = "snake_case",
                                 !.fns = <<4>>, !.tokens = TokensShort,
                                 !.rawTokens = 7]
          [] d = "s20" ->
                [BaseDiff EXCEPT !.lines = 20, !.lvar = 80, !.cv = 60,
                                 !.range = 90, !.tokens = TokensShort,
                                 !.rawTokens = 7]
          [] d = "s21" ->
                [BaseDiff EXCEPT !.lines = 21, !.lvar = 80, !.cv = 60,
                                 !.range = 90, !.tokens = TokensShort,
                                 !.rawTokens = 7]
          [] d = "s30" ->
                [BaseDiff EXCEPT !.lines = 30, !.lvar = 80, !.cv = 60,
                                 !.range = 90, !.naming = "snake_case",
                                 !.fns = <<4>>, !.tokens = TokensShort,
                                 !.rawTokens = 7]
          [] d = "s100" ->
                [BaseDiff EXCEPT !.lines = 100, !.lvar = 80, !.cv = 60,
                                 !.range = 90, !.naming = "snake_case",
                                 !.fns = <<4>>, !.tokens = TokensShort,
                                 !.rawTokens = 7]
          [] d = "styled30" ->
                [BaseDiff EXCEPT !.lines = 30, !.comments = 9, !.lvar = 20,
                                 !.cv = 60, !.range = 90,
                                 !.naming = "camelCase", !.fns = <<10>>,
                                 !.tokens = TokensShort, !.rawTokens = 7] ]

\* not diff.strip()
IsEmptyDiff(d) == Diffs[d].lines = 0

\* len([l for l in diff.split('\n') if l.strip()])
NonBlankLines(d) == Diffs[d].lines

BaseMsg ==
    [ empty        |-> FALSE,  \* not text or len(text.strip()) < 2
      words        |-> 0,      \* len(text.strip().split())
      conventional |-> FALSE,  \* _CONVENTIONAL_PREFIX matches
      perfect      |-> FALSE,  \* capital first letter, final period, no typo
      template     |-> FALSE,  \* one of _TEMPLATE_PHRASES occurs
      bullets      |-> FALSE,  \* two or more markdown bullets
      gpt2Fails    |-> FALSE,  \* loading or running GPT-2 raises
      perplexity   |-> 999 ]   \* TextDetector._perplexity, 999 when it fails

MsgNames == {"none", "plain", "convLong", "convLongNoGpt2"}

Msgs ==
    [ m \in MsgNames |->
        CASE m = "none" -> [BaseMsg EXCEPT !.empty = TRUE]
          [] m = "plain" -> [BaseMsg EXCEPT !.words = 5]
          [] m = "convLong" ->
                [BaseMsg EXCEPT !.words = 9, !.conventional = TRUE,
                                !.perplexity = 40]
          [] m = "convLongNoGpt2" ->
                [BaseMsg EXCEPT !.words = 9, !.conventional = TRUE,
                                !.gpt2Fails = TRUE, !.perplexity = 999] ]

Authors == {"A", "B"}

\* A commit of the repository.  sha is its place in the hist, 1 for the
\* oldest; time is committed_datetime in seconds.
Commit(sha, author, time, parents, msg, diff) ==
    [ sha |-> sha, author |-> author, time |-> time, parents |-> parents,
      msg |-> msg, diff |-> diff ]

\* ------------------------------------------------------------------------
\* git_client.py
\* ------------------------------------------------------------------------

\* list(repo.iter_commits(max_count=max_count)): the newest commits, newest
\* first; hist is the whole hist, newest first.
GetCommits(hist, maxCount) == SubSeq(hist, 1, Min(maxCount, Len(hist)))

\* The added lines of a commit; "" for a commit without parents.
GetCommitDiff(c) == IF c.parents = 0 THEN "empty" ELSE c.diff

Reversed(s) == [i \in 1..Len(s) |-> s[Len(s) + 1 - i]]

\* ------------------------------------------------------------------------
\* detectors/baseline.py : AuthorBaseline
\* ------------------------------------------------------------------------

\* _comment_ratio(diff), in percent (whole for every named diff).
CommentRatio(d) ==
    IF Diffs[d].lines = 0 THEN 0
    ELSE (100 * Diffs[d].comments) \div Diffs[d].lines

\* build_profiles, first loop: author_data.  The entries of one author,
\* oldest first, of the commits whose diff is not empty.  An entry is the
\* commit's sha and the name of its diff (the measurements of the entry
\* are the diff's).
RECURSIVE EntriesOf(_, _)
EntriesOf(author, oldestFirst) ==
    IF oldestFirst = <<>> THEN <<>>
    ELSE LET c == Head(oldestFirst)
             rest == EntriesOf(author, Tail(oldestFirst))
         IN  IF c.author = author /\ ~IsEmptyDiff(GetCommitDiff(c))
             THEN <<[sha |-> c.sha, diff |-> GetCommitDiff(c)]>> \o rest
             ELSE rest

AuthorData(cs) ==
    LET oldestFirst == Reversed(cs)
        present == {a \in Authors : EntriesOf(a, oldestFirst) # <<>>}
    IN  [a \in present |-> EntriesOf(a, oldestFirst)]

\* entries[:max(1, len(entries) // 2)]
BaselineEntries(entries) == SubSeq(entries, 1, Max(1, Len(entries) \div 2))

\* Counter(naming_styles).most_common(1)[0][0]: the most frequent style,
\* the one met first among equally frequent ones.
DominantNaming(styles) ==
    LET occurrences(x) == Cardinality({i \in 1..Len(styles) : styles[i] = x})
        first(x) == CHOOSE i \in 1..Len(styles) :
                        /\ styles[i] = x
                        /\ \A j \in 1..(i - 1) : styles[j] # x
        best == CHOOSE i \in 1..Len(styles) :
                    /\ \A j \in 1..(i - 1) : styles[j] # styles[i]
                    /\ \A j \in 1..Len(styles) :
                          \/ occurrences(styles[j]) < occurrences(styles[i])
                          \/ /\ occurrences(styles[j]) = occurrences(styles[i])
                             /\ first(styles[j]) >= i
    IN  IF styles = <<>> THEN "mixed" ELSE styles[best]

\* The profile of one author.  A mean is kept as the sum of its terms (and
\* their number), a standard deviation as the sum of the squares too:
\*   avg_commit_size   = sizeSum / n
\*   commit_size_stdev = sqrt((n * sizeSq - sizeSum^2) / (n * (n - 1)))
\*   avg_comment_ratio = crSum / n        (percent)
\*   avg_line_variance = lvarSum / n      (tenths)
\*   avg_fn_length     = fnSum / fnCount  (0 when fnCount = 0)
ProfileOf(baseline) ==
    LET n == Len(baseline)
        f(i) == Diffs[baseline[i].diff]
    IN  [ n       |-> n,
          sizeSum |-> SumSeq([i \in 1..n |-> f(i).lines]),
          sizeSq  |-> SumSeq([i \in 1..n |-> f(i).lines * f(i).lines]),
          crSum   |-> SumSeq([i \in 1..n |-> CommentRatio(baseline[i].diff)]),
          lvarSum |-> SumSeq([i \in 1..n |-> f(i).lvar]),
          fnSum   |-> SumSeq([i \in 1..n |-> SumSeq(f(i).fns)]),
          fnCount |-> SumSeq([i \in 1..n |-> Len(f(i).fns)]),
          dominantNaming |-> DominantNaming([i \in 1..n |-> f(i).naming]) ]

\* build_profiles: self.profiles, a profile for every author with an entry.
BuildProfiles(cs) ==
    [a \in DOMAIN AuthorData(cs) |->
        ProfileOf(BaselineEntries(AuthorData(cs)[a]))]

\* Need at least 5 baseline commits for reliable comparison.
MinBaselineCommits == 5

Abs(x) == IF x < 0 THEN -x ELSE x

\* n * (n - 1) * commit_size_stdev^2
SizeSpread(p) == p.n * p.sizeSq - p.sizeSum * p.sizeSum

\* baseline_size > 0 and baseline_stdev > 0
SizeSignalApplies(p) == p.sizeSum > 0 /\ p.n >= 2 /\ SizeSpread(p) > 0

\* z_score > num / den, where
\*   z_score = abs(commit_size - baseline_size) / (baseline_stdev + 1):
\* with D = |n * size - sizeSum| this is D / n - num/den > (num/den) * stdev,
\* that is den * D - num * n > 0 and
\*   (den * D - num * n)^2 * (n - 1) > num^2 * n * SizeSpread.
ZAbove(p, size, num, den) ==
    LET lhs == den * Abs(p.n * size - p.sizeSum) - num * p.n
    IN  /\ lhs > 0
        /\ lhs * lhs * (p.n - 1) > num * num * p.n * SizeSpread(p)

\* 1. Commit size deviation
SizeSignal(p, d) ==
    IF SizeSignalApplies(p) /\ ZAbove(p, Diffs[d].lines, 2, 1)
    THEN Res(40, <<"Commit size extreme outlier">>)
    ELSE IF SizeSignalApplies(p) /\ ZAbove(p, Diffs[d].lines, 6, 5)
    THEN Res(20, <<"Unusual commit size">>)
    ELSE Res(0, <<>>)

\* 2. Comment ratio deviation: cr_diff > 0.10 and commit_size > 15
CommentSignal(p, d) ==
    IF p.n * CommentRatio(d) - p.crSum > 10 * p.n /\ Diffs[d].lines > 15
    THEN Res(25, <<"Comment density spike">>)
    ELSE Res(0, <<>>)

\* 3. Line length regularity: baseline_var > 4 and
\*    line_variance < baseline_var * 0.5 and commit_size > 20
RegularitySignal(p, d) ==
    IF /\ p.lvarSum > 40 * p.n
       /\ 2 * p.n * Diffs[d].lvar < p.lvarSum
       /\ Diffs[d].lines > 20
    THEN Res(30, <<"Abnormally regular line lengths">>)
    ELSE Res(0, <<>>)

\* 4. Naming style shift
NamingSignal(p, d) ==
    IF /\ Diffs[d].naming # p.dominantNaming
       /\ Diffs[d].naming # "mixed"
       /\ Diffs[d].lines > 15
    THEN Res(20, <<"Naming style shift">>)
    ELSE Res(0, <<>>)

\* 5. Function length anomaly: avg_fn / baseline_fn > 1.8
FunctionSignal(p, d) ==
    LET fns == Diffs[d].fns
    IN  IF /\ p.fnCount > 0 /\ p.fnSum > 0
           /\ fns # <<>> /\ SumSeq(fns) > 0
           /\ 5 * SumSeq(fns) * p.fnCount > 9 * p.fnSum * Len(fns)
        THEN Res(25, <<"Functions longer than author historical average">>)
        ELSE Res(0, <<>>)

DeviationSignals(p, d) ==
    << SizeSignal(p, d), CommentSignal(p, d), RegularitySignal(p, d),
       NamingSignal(p, d), FunctionSignal(p, d) >>

\* analyze_deviation without the test for a short baseline.
AnalyzeDeviationNoMinimum(profs, author, d) ==
    IF author \notin DOMAIN profs \/ IsEmptyDiff(d)
    THEN Res(0, <<"No baseline available">>)
    ELSE LET sig == DeviationSignals(profs[author], d)
             score == SumSeq([i \in 1..5 |-> sig[i].score])
             reasons == Concat([i \in 1..5 |-> sig[i].reason])
         IN  Res(Min(score, 100),
                 IF reasons = <<>>
                 THEN <<"Style consistent with author baseline">>
                 ELSE reasons)

\* analyze_deviation(author, diff)
AnalyzeDeviation(profs, author, d) ==
    IF author \notin DOMAIN profs \/ IsEmptyDiff(d)
    THEN Res(0, <<"No baseline available">>)
    ELSE IF profs[author].n < MinBaselineCommits
    THEN Res(0, <<"Insufficient baseline history">>)
    ELSE LET sig == DeviationSignals(profs[author], d)
             score == SumSeq([i \in 1..5 |-> sig[i].score])
             reasons == Concat([i \in 1..5 |-> sig[i].reason])
         IN  Res(Min(score, 100),
                 IF reasons = <<>>
                 THEN <<"Style consistent with author baseline">>
                 ELSE reasons)

\* ------------------------------------------------------------------------
\* detectors/structural.py
\* ------------------------------------------------------------------------

\* The three signals with the first one asked for more than 20 lines in
\* both of its branches.
StructuralSignalsAbove20(f) ==
    LET uniform == IF f.cv < 25 /\ f.lines > 20
                   THEN Res(50, <<"Abnormally uniform line lengths">>)
                   ELSE IF f.cv < 35 /\ f.lines > 20
                   THEN Res(25, <<"Suspicious line length regularity">>)
                   ELSE Res(0, <<>>)
    IN  << uniform,
           IF f.range < 50 /\ f.lines > 20
           THEN Res(20, <<"Narrow line length range">>)
           ELSE Res(0, <<>>),
           IF f.gaps >= 3 /\ f.gapCv < 30
           THEN Res(15, <<"Perfectly regular blank-line spacing (AI formatting pattern)">>)
           ELSE Res(0, <<>>) >>

\* analyze_structural_regularity(diff): the three signals, for what is
\* measured on the diff.
StructuralSignals(f) ==
    << IF f.cv < 25 /\ f.lines > 15
       THEN Res(50, <<"Abnormally uniform line lengths">>)
       ELSE IF f.cv < 35 /\ f.lines > 20
       THEN Res(25, <<"Suspicious line length regularity">>)
       ELSE Res(0, <<>>),
       IF f.range < 50 /\ f.lines > 20
       THEN Res(20, <<"Narrow line length range">>)
       ELSE Res(0, <<>>),
       IF f.gaps >= 3 /\ f.gapCv < 30
       THEN Res(15, <<"Perfectly regular blank-line spacing (AI formatting pattern)">>)
       ELSE Res(0, <<>>) >>

AnalyzeStructuralOn(f) ==
    IF f.lines < 8
    THEN Res(0, <<"Diff too small for structural analysis">>)
    ELSE LET sig == StructuralSignals(f)
             score == SumSeq([i \in 1..3 |-> sig[i].score])
             reasons == Concat([i \in 1..3 |-> sig[i].reason])
         IN  Res(Min(score, 100),
                 IF reasons = <<>> THEN <<"Organic structural variation">>
                 ELSE reasons)

AnalyzeStructural(d) == AnalyzeStructuralOn(Diffs[d])

\* The width of a fingerprint.
HashBits == 64

\* Diffs with fewer tokens are neither compared nor indexed.
MinTokens == 10

BitPositions == 0..(HashBits - 1)

\* Bit i of hash(token) % 2**64.  Python's hash of a string is a keyed
\* hash; the key (seed) is drawn when the process starts.  The model puts
\* a fixed scrambling function in its place.
TokenHashBit(token, hashSeed, i) ==
    ((token * 3 + hashSeed * 3 + 2) * (i + 1) + (token + hashSeed) * i * i) % 7 < 3

\* _simhash(tokens): the set of the bit positions set in the fingerprint.
SimHash(tokens, hashSeed) ==
    IF tokens = <<>> THEN {}
    ELSE { i \in BitPositions :
             SumSeq([k \in 1..Len(tokens) |->
                 IF TokenHashBit(tokens[k], hashSeed, i) THEN 1 ELSE -1]) > 0 }

\* The fingerprints of the named diffs, for each seed.
Seeds == {0, 1}

Fingerprints ==
    [hashSeed \in Seeds |-> [d \in DiffNames |-> SimHash(Diffs[d].tokens, hashSeed)]]

\* The bits set in h1 and not in h2, in place of the bits of h1 ^ h2.
HammingDistanceOneSided(h1, h2) == Cardinality(h1 \ h2)

\* _hamming_distance(h1, h2)
HammingDistance(h1, h2) == Cardinality((h1 \ h2) \cup (h2 \ h1))

\* _similarity(h1, h2) >= percent / 100, where
\*   _similarity = 1.0 - dist / bits
SimilarityAtLeast(h1, h2, percent) ==
    100 * (HashBits - HammingDistance(h1, h2)) >= percent * HashBits

\* SimHashIndex(similarity_threshold=0.82), in percent (main.py).
SimilarityThreshold == 82

\* add() without the test for fewer than 10 tokens.
IndexAddAnyLength(idx, sha, author, d, hashSeed) ==
    Append(idx, [sha |-> sha, author |-> author,
                 hash |-> Fingerprints[hashSeed][d]])

\* add() that puts the new entry in front of the list.
IndexAddInFront(idx, sha, author, d, hashSeed) ==
    IF Len(Diffs[d].tokens) < MinTokens THEN idx
    ELSE <<[sha |-> sha, author |-> author,
            hash |-> Fingerprints[hashSeed][d]]>> \o idx

\* SimHashIndex.add(hexsha, author, diff)
IndexAdd(idx, sha, author, d, hashSeed) ==
    IF Len(Diffs[d].tokens) < MinTokens THEN idx
    ELSE Append(idx, [sha |-> sha, author |-> author,
                      hash |-> Fingerprints[hashSeed][d]])

\* find_duplicates without the test other_sha == hexsha.
MatchPositionsWithOwn(idx, sha, d, hashSeed) ==
    IF Len(Diffs[d].tokens) < MinTokens THEN {}
    ELSE { k \in 1..Len(idx) :
             SimilarityAtLeast(Fingerprints[hashSeed][d], idx[k].hash,
                               SimilarityThreshold) }

\* SimHashIndex.find_duplicates: the positions in the index of the matches.
MatchPositions(idx, sha, d, hashSeed) ==
    IF Len(Diffs[d].tokens) < MinTokens THEN {}
    ELSE { k \in 1..Len(idx) :
             /\ idx[k].sha # sha
             /\ SimilarityAtLeast(Fingerprints[hashSeed][d], idx[k].hash,
                                  SimilarityThreshold) }

\* matches[-1]: the least similar match, the one indexed last on ties.
TopMatchLeastSimilar(idx, sha, d, hashSeed) ==
    LET m == MatchPositions(idx, sha, d, hashSeed)
        dist(k) == HammingDistance(Fingerprints[hashSeed][d], idx[k].hash)
    IN  CHOOSE k \in m :
            \A j \in m : dist(j) < dist(k) \/ (dist(j) = dist(k) /\ j <= k)

\* matches[0] of the list left in the order of the index.
TopMatchFirstIndexed(idx, sha, d, hashSeed) ==
    LET m == MatchPositions(idx, sha, d, hashSeed)
    IN  CHOOSE k \in m : \A j \in m : j >= k

\* matches[0] of the list sorted by similarity, highest first; the sort is
\* stable, so of equally similar matches the one indexed first is taken.
TopMatch(idx, sha, d, hashSeed) ==
    LET m == MatchPositions(idx, sha, d, hashSeed)
        dist(k) == HammingDistance(Fingerprints[hashSeed][d], idx[k].hash)
    IN  CHOOSE k \in m :
            \A j \in m : dist(j) > dist(k) \/ (dist(j) = dist(k) /\ j >= k)

\* reasons[0] += " [cross-author]"
CrossAuthor(reason) ==
    IF reason = "Near-identical code" THEN "Near-identical code [cross-author]"
    ELSE "High code similarity [cross-author]"

\* other_sha[:7]: a hexsha is a number, its last digit stands for the
\* characters after the seventh.
ShortSha(sha) == sha \div 10

\* sorted(matches, key=lambda x: x[2], reverse=True) built one match at a
\* time: the sort is stable, so a match goes behind every match that is at
\* least as similar.  A match is (other_sha[:7], other_author, sim); dist
\* stands for sim = 1.0 - dist / 64.
InsertMatch(list, e) ==
    LET ahead == {j \in 1..Len(list) : list[j].dist <= e.dist}
        n == Cardinality(ahead)
    IN  SubSeq(list, 1, n) \o <<e>> \o SubSeq(list, n + 1, Len(list))

RECURSIVE SortedMatches(_, _, _)
SortedMatches(idx, m, h) ==
    IF m = {} THEN <<>>
    ELSE LET k == CHOOSE j \in m : \A i \in m : i <= j
         IN  InsertMatch(SortedMatches(idx, m \ {k}, h),
                         [sha |-> ShortSha(idx[k].sha),
                          author |-> idx[k].author,
                          dist |-> HammingDistance(h, idx[k].hash)])

\* SimHashIndex.find_duplicates(hexsha, author, diff): the returned list.
FindDuplicates(idx, sha, d, hashSeed) ==
    SortedMatches(idx, MatchPositions(idx, sha, d, hashSeed),
                  Fingerprints[hashSeed][d])

\* SimHashIndex.analyze: the DetectorResult.
SimilarityResult(idx, sha, author, d, hashSeed) ==
    IF MatchPositions(idx, sha, d, hashSeed) = {}
    THEN Res(0, <<"No near-duplicate commits found">>)
    ELSE LET top == idx[TopMatch(idx, sha, d, hashSeed)]
             h == Fingerprints[hashSeed][d]
             base ==
                 IF SimilarityAtLeast(h, top.hash, 92)
                 THEN Res(80, <<"Near-identical code">>)
                 ELSE IF SimilarityAtLeast(h, top.hash, 85)
                 THEN Res(50, <<"High code similarity">>)
                 ELSE IF SimilarityAtLeast(h, top.hash, 80)
                 THEN Res(25, <<"Moderate code similarity">>)
                 ELSE Res(0, <<>>)
             cross == top.author # author /\ SimilarityAtLeast(h, top.hash, 85)
             score == IF cross THEN Min(base.score + 20, 100) ELSE base.score
             reasons ==
                 IF cross THEN <<CrossAuthor(base.reason[1])>>
                 ELSE base.reason
         IN  Res(Min(score, 100),
                 IF reasons = <<>> THEN <<"No strong similarity signals">>
                 ELSE reasons)

\* ------------------------------------------------------------------------
\* detectors/text.py : TextDetector
\* ------------------------------------------------------------------------

TextSignals(m, diffLines) ==
    LET f == Msgs[m]
    IN  << IF f.conventional
           THEN Res(50, <<"Conventional commit format (CI tooling or AI assistant)">>)
           ELSE Res(0, <<>>),
           IF f.perfect /\ f.words > 4
           THEN Res(25, <<"Overly perfect grammar with zero informal markers">>)
           ELSE Res(0, <<>>),
           IF f.words <= 2
           THEN Res(30, <<"Extremely terse message">>)
           ELSE Res(0, <<>>),
           IF (diffLines > 50 \/ f.words > 20) /\ f.template
           THEN Res(40, <<"AI template phrasing detected">>)
           ELSE Res(0, <<>>),
           IF diffLines > 0 /\ f.words > 50 /\ diffLines < 10
           THEN Res(35, <<"Long commit message for tiny diff">>)
           ELSE Res(0, <<>>),
           IF diffLines > 0 /\ f.words < 5 /\ diffLines > 100
           THEN Res(30, <<"Tiny message for large diff">>)
           ELSE Res(0, <<>>),
           IF f.bullets
           THEN Res(20, <<"Markdown-style bullet list in commit message (AI formatting)">>)
           ELSE Res(0, <<>>),
           IF f.words >= 8 /\ f.perplexity < 50
           THEN Res(70, <<"Very low token perplexity">>)
           ELSE IF f.words >= 8 /\ f.perplexity < 120
           THEN Res(35, <<"Low-medium perplexity">>)
           ELSE Res(0, <<>>) >>

\* TextDetector.analyze(text, diff_lines)
AnalyzeText(m, diffLines) ==
    IF Msgs[m].empty THEN Res(0, <<"Empty commit message">>)
    ELSE LET sig == TextSignals(m, diffLines)
             score == SumSeq([i \in 1..8 |-> sig[i].score])
             reasons == Concat([i \in 1..8 |-> sig[i].reason])
         IN  Res(Min(score, 100),
                 IF reasons = <<>> THEN <<"No strong text signals">>
                 ELSE reasons)

\* ------------------------------------------------------------------------
\* detectors/code.py : CodeDetector
\* ------------------------------------------------------------------------

\* len(diff.split('\n'))
TotalLines(d) == Diffs[d].lines + Diffs[d].blank

\* CodeDetector._analyze_ast
AnalyzeAst(d) ==
    LET f == Diffs[d]
        total == TotalLines(d)
        sig == << IF total > 15 /\ f.docstrings > 0
                  THEN Res(40, <<"High structural docstring density">>)
                  ELSE Res(0, <<>>),
                  IF total > 20 /\ 5 * f.varsAssigned < total
                  THEN Res(30, <<"Low AST lexical entropy">>)
                  ELSE Res(0, <<>>),
                  IF total > 50
                  THEN Res(20, <<"Large structural block addition">>)
                  ELSE Res(0, <<>>) >>
        score == SumSeq([i \in 1..3 |-> sig[i].score])
        reasons == Concat([i \in 1..3 |-> sig[i].reason])
    IN  Res(Min(score, 100),
            IF reasons = <<>> THEN <<"Organic AST structural complexity">>
            ELSE reasons)

\* CodeDetector._analyze_raw
AnalyzeRaw(d) ==
    LET f == Diffs[d]
        total == TotalLines(d)
        sig == << IF total > 40
                  THEN Res(40, <<"Large raw code block addition">>)
                  ELSE Res(0, <<>>),
                  IF total > 10 /\ 100 * f.slashOrHash > 15 * total
                  THEN Res(50, <<"Unusually high raw comment density">>)
                  ELSE Res(0, <<>>),
                  IF f.consoleLog /\ total > 5
                  THEN Res(20, <<>>)
                  ELSE Res(0, <<>>),
                  IF f.react
                  THEN Res(30, <<"Generic React component scaffolding detected">>)
                  ELSE Res(0, <<>>) >>
        score == SumSeq([i \in 1..4 |-> sig[i].score])
        reasons == Concat([i \in 1..4 |-> sig[i].reason])
    IN  Res(Min(score, 100),
            IF reasons = <<>> THEN <<"Organic raw complexity">>
            ELSE reasons)

\* CodeDetector.analyze(diff)
AnalyzeCode(d) ==
    IF IsEmptyDiff(d) THEN Res(0, <<"No code added">>)
    ELSE IF Diffs[d].parses THEN AnalyzeAst(d)
    ELSE AnalyzeRaw(d)

\* ------------------------------------------------------------------------
\* detectors/semantic.py : SemanticDetector
\* ------------------------------------------------------------------------

\* What the sentence-transformers model does in a call of analyze: the
\* package is not installed ("missing"), the package is there and loading
\* the model raises ("loadFails"), encoding raises ("raises"), or it yields
\* embeddings with the given cosine similarity, in hundredths.  _load_model
\* catches ImportError only and analyze calls _check_available outside its
\* try block: with "loadFails" analyze raises, and AnalyzeSemantic is not
\* applied.
SemanticAnswer(kind, cosine) == [kind |-> kind, cosine |-> cosine]

\* not diff
IsFalsyDiff(d) == Diffs[d].lines = 0 /\ Diffs[d].blank = 0

\* SemanticDetector.analyze(message, diff)
AnalyzeSemantic(m, d, answer) ==
    IF Msgs[m].empty \/ IsFalsyDiff(d)
    THEN Res(0, <<"Missing message or diff">>)
    ELSE IF Msgs[m].words < 4 \/ Diffs[d].rawTokens < 8
    THEN Res(0, <<"Too short for semantic analysis">>)
    ELSE IF answer.kind = "missing"
    THEN Res(0, <<"Semantic model not installed (pip install sentence-transformers)">>)
    ELSE IF answer.kind = "raises"
    THEN Res(0, <<"Semantic analysis failed">>)
    ELSE IF answer.cosine > 60
    THEN Res(80, <<"Very high semantic coherence">>)
    ELSE IF answer.cosine > 45
    THEN Res(50, <<"High message-code semantic alignment">>)
    ELSE IF answer.cosine > 35
    THEN Res(25, <<"Moderate semantic alignment">>)
    ELSE Res(0, <<"Natural human-style message-code divergence">>)

\* ------------------------------------------------------------------------
\* main.py : _get_analysis_data
\* ------------------------------------------------------------------------

\* get_commits(repo, max(count * 3, 60))
HistoryFactor == 3
MinHistory == 60

\* The burst window (seconds), the size a window needs, the number of large
\* commits it needs, and what a large commit exceeds (lines).
BurstWindowSeconds == 600
BurstMinCommits == 5
BurstMinLarge == 3
BurstLargeLines == 20

\* The loop over reversed(commits): commit_velocities (by sha), and
\* author_commit_times (by author, entries in the order of the loop).
RECURSIVE VelocityLoop(_, _)
VelocityLoop(todo, acc) ==
    IF todo = <<>> THEN acc
    ELSE LET c == Head(todo)
             linesAdded == NonBlankLines(GetCommitDiff(c))
             seconds == c.time - acc.lastSeen[c.author]
             velocity ==
                 IF c.author \in DOMAIN acc.lastSeen
                 THEN (IF seconds > 0 THEN Velocity(linesAdded * 60, seconds)
                       ELSE Velocity(linesAdded, 1))
                 ELSE Velocity(0, 1)
             before ==
                 IF c.author \in DOMAIN acc.times THEN acc.times[c.author]
                 ELSE <<>>
             entry == [time |-> c.time, sha |-> c.sha, lines |-> linesAdded]
         IN  VelocityLoop(Tail(todo),
                 [ lastSeen |-> (c.author :> c.time) @@ acc.lastSeen,
                   vel      |-> (c.sha :> velocity) @@ acc.vel,
                   times    |-> (c.author :> Append(before, entry)) @@ acc.times ])

EmptyMap == [x \in {} |-> 0]

VelocityPass(cs) ==
    VelocityLoop(Reversed(cs),
                 [lastSeen |-> EmptyMap, vel |-> EmptyMap, times |-> EmptyMap])

\* entries.sort(key=lambda x: x[0]): a stable sort by time.
RECURSIVE SortByTime(_)
SortByTime(entries) ==
    IF entries = <<>> THEN <<>>
    ELSE LET sorted == SortByTime(SubSeq(entries, 1, Len(entries) - 1))
             e == entries[Len(entries)]
             keep == Cardinality({k \in 1..Len(sorted) : sorted[k].time <= e.time})
         IN  SubSeq(sorted, 1, keep) \o <<e>> \o SubSeq(sorted, keep + 1, Len(sorted))

\* window = [e for e in entries[i:] if e[0] - entries[i][0] <= 600 s]
BurstWindow(entries, i) ==
    SelectSeq(SubSeq(entries, i, Len(entries)),
              LAMBDA e : e.time - entries[i].time <= BurstWindowSeconds)

LargeInWindow(window) ==
    Cardinality({k \in 1..Len(window) : window[k].lines > BurstLargeLines})

\* A window test that does not ask for large commits.
WindowQualifiesAnySize(window) == Len(window) >= BurstMinCommits

WindowQualifies(window) ==
    Len(window) >= BurstMinCommits /\ LargeInWindow(window) >= BurstMinLarge

\* The inner loop for one author: the commits of the first window that
\* qualifies are added, and the loop is left (break).
BurstOfAuthor(entries) ==
    LET sorted == SortByTime(entries)
        starts == {i \in 1..Len(sorted) : WindowQualifies(BurstWindow(sorted, i))}
    IN  IF starts = {} THEN {}
        ELSE LET first == CHOOSE i \in starts : \A j \in starts : i <= j
             IN  {e.sha : e \in Range(BurstWindow(sorted, first))}

\* burst_commits
BurstCommits(byAuthor) == UNION {BurstOfAuthor(byAuthor[a]) : a \in DOMAIN byAuthor}

\* The answers of LLMAnalyzer.analyze: a score in hundredths, -100 for "no
\* opinion", and a reason.
LlmNoOpinion == -100

LlmScores == {LlmNoOpinion, -50, 50, 90}

LlmAnswers == [score : LlmScores, reason : {"LLM verdict"}]

LlmNote == "Local engines returned borderline score. Final score was determined by LLM."

\* The LLM tie-breaker for borderline commits (score between 0.35 and 0.50).
Adjudicate(res, useLlmFlag, answer) ==
    IF useLlmFlag /\ 35 <= res.score /\ res.score <= 50
                  /\ answer.score # LlmNoOpinion
    THEN [res EXCEPT !.score = answer.score,
                     !.reasons = res.reasons \o <<answer.reason, LlmNote>>]
    ELSE res

\* final_res["band"], from the reported score in hundredths.
MainBand(score) ==
    IF score > 50 THEN "Likely AI-assisted"
    ELSE IF score < 20 THEN "Likely Human"
    ELSE "Mixed / Uncertain"

\* The arguments of aggregator.compute for one commit of the scan.
CommitInputs(c, profs, vels, bursts, idx, hashSeed, semAnswer) ==
    LET d == GetCommitDiff(c)
    IN  [ text       |-> AnalyzeText(c.msg, NonBlankLines(d)),
          code       |-> AnalyzeCode(d),
          structural |-> AnalyzeStructural(d),
          similarity |-> SimilarityResult(idx, c.sha, c.author, d, hashSeed),
          semantic   |-> AnalyzeSemantic(c.msg, d, semAnswer),
          baseline   |-> AnalyzeDeviation(profs, c.author, d),
          velocity   |-> IF c.sha \in DOMAIN vels THEN vels[c.sha]
                         ELSE Velocity(0, 1),
          burst      |-> IF c.sha \in bursts THEN 40 ELSE 0 ]

\* One entry of results.
ResultEntry(c, res) ==
    [ hash |-> c.sha, author |-> c.author, score |-> res.score,
      band |-> MainBand(res.score), reasons |-> res.reasons ]

\* ------------------------------------------------------------------------
\* The aggregator on its own: the arguments are drawn, compute() is called.
\* ------------------------------------------------------------------------

ScoreGrid == {0, 25, 30, 50, 100}

EngineNames == <<"text", "code", "structural", "similarity", "semantic", "baseline">>

\* What each engine reports when it has found nothing.
SentinelOf(e) ==
    CASE e = "text"       -> "No strong text signals"
      [] e = "code"       -> "Organic raw complexity"
      [] e = "structural" -> "Organic structural variation"
      [] e = "similarity" -> "No near-duplicate commits found"
      [] e = "semantic"   -> "Natural human-style message-code divergence"
      [] e = "baseline"   -> "Style consistent with author baseline"

\* One reason of each engine for a signal it has found.
SignalOf(e) ==
    CASE e = "text"       -> "Conventional commit format (CI tooling or AI assistant)"
      [] e = "code"       -> "Large raw code block addition"
      [] e = "structural" -> "Suspicious line length regularity"
      [] e = "similarity" -> "Moderate code similarity"
      [] e = "semantic"   -> "Moderate semantic alignment"
      [] e = "baseline"   -> "Unusual commit size"

\* The results of engine e on the grid, and what the code engine returns for
\* a diff whose only signal is console.log.
EngineResults(e) ==
    {Res(s, <<IF s = 0 THEN SentinelOf(e) ELSE SignalOf(e)>>) : s \in ScoreGrid}
        \cup (IF e = "code" THEN {AnalyzeRaw("log6")} ELSE {})

VelocityGrid == {Velocity(n, 1) : n \in {0, 20, 21, 50, 51}}

BurstGrid == {0, 40}

AggInputs ==
    [ text : EngineResults("text"), code : EngineResults("code"),
      structural : EngineResults("structural"),
      similarity : EngineResults("similarity"),
      semantic : EngineResults("semantic"),
      baseline : EngineResults("baseline"),
      velocity : VelocityGrid, burst : BurstGrid ]

NoResult == [score |-> -1, band |-> "", reasons |-> <<>>]

NoDevIn == [author |-> "A", diff |-> "empty"]

\* The variables a specification does not use stay as they are here.
SecondCallIdle == aggIn2 = [none |-> TRUE] /\ aggOut2 = NoResult

AggIdle == aggIn = [none |-> TRUE] /\ aggOut = NoResult /\ SecondCallIdle

DevIdle == devIn = NoDevIn /\ devOut = Res(-1, <<>>)

StatsIdle == leaderboard = <<>>

NoCall == [op |-> "none", place |-> 0]

CallIdle ==
    /\ simIn = NoCall /\ simOut = Res(-1, <<>>) /\ matches = <<>>
    /\ structIn = BaseDiff /\ structOut = Res(-1, <<>>)

ScanInputsIdle ==
    /\ pathExists = TRUE /\ repoValid = TRUE /\ history = <<>> /\ count = 1
    /\ useLlm = FALSE /\ seed = 0

ScanVarsIdle ==
    /\ commits = <<>> /\ profiles = EmptyMap /\ velocities = EmptyMap
    /\ times = EmptyMap /\ burst = {} /\ index = <<>> /\ pos = 1
    /\ results = <<>> /\ finalRes = <<>> /\ llmCalls = <<>> /\ err = ""

InitAgg ==
    /\ pc = "agg"
    /\ aggIn \in AggInputs
    /\ aggOut = NoResult
    /\ SecondCallIdle
    /\ ScanInputsIdle /\ ScanVarsIdle /\ DevIdle /\ StatsIdle /\ CallIdle

AggCompute ==
    /\ pc = "agg"
    /\ \E roundUp \in BOOLEAN : aggOut' = Compute(aggIn, roundUp)
    /\ pc' = "aggDone"
    /\ UNCHANGED <<aggIn, aggIn2, aggOut2, scanInputs, leaderboard, callVars,
                   scanVars, devVars>>

NextAgg == AggCompute

SpecAgg == InitAgg /\ [][NextAgg]_vars

\* ------------------------------------------------------------------------
\* Two calls of compute(), the second with one argument raised (or none)
\* ------------------------------------------------------------------------

\* The sub-scores of the two calls: below, at and above the thresholds 0.3
\* and 0.5 (two of the engines only at 0 and 0.5).
PairScores(e) ==
    IF e \in {"similarity", "semantic"} THEN {0, 50} ELSE {0, 30, 50, 100}

PairResults(e) == {r \in EngineResults(e) : r.score \in PairScores(e)}

PairVelocities == {Velocity(n, 1) : n \in {0, 21, 51}}

PairInputs ==
    [ text : PairResults("text"), code : PairResults("code"),
      structural : PairResults("structural"),
      similarity : PairResults("similarity"),
      semantic : PairResults("semantic"),
      baseline : PairResults("baseline"),
      velocity : PairVelocities, burst : BurstGrid ]

\* The arguments that differ from in by one argument, which is higher.
Raised(in) ==
    LET higher(e) == {r \in PairResults(e) : r.score > in[e].score}
        engines == UNION { {[in EXCEPT ![EngineNames[i]] = r] :
                               r \in higher(EngineNames[i])} : i \in 1..6 }
        faster == { [in EXCEPT !.velocity = v] :
                      v \in {w \in PairVelocities : w.num > in.velocity.num} }
        flagged == { [in EXCEPT !.burst = b] :
                       b \in {c \in BurstGrid : c > in.burst} }
    IN  engines \cup faster \cup flagged

InitPair ==
    /\ pc = "pair"
    /\ aggIn \in PairInputs
    /\ aggIn2 \in Raised(aggIn) \cup {aggIn}
    /\ aggOut = NoResult /\ aggOut2 = NoResult
    /\ ScanInputsIdle /\ ScanVarsIdle /\ DevIdle /\ StatsIdle /\ CallIdle

\* The directions round() may take for a final score.
RoundDirections(final) == IF final % 100 = 50 THEN BOOLEAN ELSE {TRUE}

\* Two calls add up the same floating point numbers in the same order.
SameFloatSum(in1, in2) ==
    /\ AllScores(in1) = AllScores(in2)
    /\ VScore(in1.velocity) = VScore(in2.velocity)
    /\ BurstBonus(in1.burst) = BurstBonus(in2.burst)

PairFirst ==
    /\ pc = "pair"
    /\ \E roundUp \in RoundDirections(FinalScore(aggIn)) :
           aggOut' = Compute(aggIn, roundUp)
    /\ pc' = "pairSecond"
    /\ UNCHANGED <<aggIn, aggIn2, aggOut2, scanInputs, leaderboard, callVars,
                   scanVars, devVars>>

\* The second call rounds as the first did when it adds up the same floats.
PairSecond ==
    /\ pc = "pairSecond"
    /\ \E roundUp \in RoundDirections(FinalScore(aggIn2)) :
           /\ SameFloatSum(aggIn, aggIn2) =>
                  aggOut.score = Round2(FinalScore(aggIn), roundUp)
           /\ aggOut2' = Compute(aggIn2, roundUp)
    /\ pc' = "pairDone"
    /\ UNCHANGED <<aggIn, aggOut, aggIn2, scanInputs, leaderboard, callVars,
                   scanVars, devVars>>

NextPair == PairFirst \/ PairSecond

SpecPair == InitPair /\ [][NextPair]_vars

\* ------------------------------------------------------------------------
\* A scan: main._get_analysis_data(path, count, use_llm)
\* ------------------------------------------------------------------------

\* The history a sequence of choices gives.  Choice k (1 is the oldest
\* commit, the root) is <<author, seconds since commit k - 1, message, diff>>.
RECURSIVE HistoryOf(_)
HistoryOf(choices) ==
    LET n == Len(choices)
        last == choices[n]
    IN  IF n = 1
        THEN <<Commit(1, last[1], 0, 0, last[3], last[4])>>
        ELSE LET older == HistoryOf(SubSeq(choices, 1, n - 1))
             IN  <<Commit(n, last[1], older[1].time + last[2], 1, last[3], last[4])>>
                 \o older

\* h is the history of a root and up to maxLater later commits.
IsHistory(h, maxLater, rootChoices, laterChoices) ==
    \E n \in 0..maxLater :
        \E root \in rootChoices, later \in [1..n -> laterChoices] :
            h = HistoryOf(<<root>> \o later)

MaxScanCommits == 2

ScanRoots == {<<a, 0, "plain", "empty">> : a \in Authors}

ScanChoices ==
    { <<a, dt, c[1], c[2]>> :
        a \in Authors, dt \in {0, 30},
        c \in { <<"convLong", "log6">>, <<"convLongNoGpt2", "log6">>,
                <<"plain", "dup12">>, <<"plain", "uniform30">> } }

ScanCounts == {1, 2, 3}

\* What the semantic model answers during a scan.
ScanSemanticAnswers ==
    { SemanticAnswer("missing", 0), SemanticAnswer("raises", 0),
      SemanticAnswer("cosine", 70) }

InitScan ==
    /\ pc = "start"
    /\ pathExists \in BOOLEAN
    /\ repoValid \in IF pathExists THEN BOOLEAN ELSE {FALSE}
    /\ \/ history = <<>>
       \/ repoValid /\ IsHistory(history, MaxScanCommits, ScanRoots, ScanChoices)
    /\ count \in ScanCounts
    /\ useLlm \in BOOLEAN
    /\ seed \in Seeds
    /\ ScanVarsIdle /\ AggIdle /\ DevIdle /\ StatsIdle /\ CallIdle

\* Lines 23-36: the repository and the commits are fetched, the detectors
\* are made.  git.Repo(path) raises NoSuchPathError when the path does not
\* exist and InvalidGitRepositoryError when it holds no repository; get_repo
\* catches the second only, so the first leaves _get_analysis_data as an
\* exception.
ScanStart ==
    /\ pc = "start"
    /\ IF ~pathExists
       THEN /\ err' = ""
            /\ pc' = "noSuchPath"
            /\ UNCHANGED commits
       ELSE IF ~repoValid
       THEN /\ err' = "not a valid Git repository"
            /\ pc' = "done"
            /\ UNCHANGED commits
       ELSE /\ commits' = GetCommits(history, count)
            /\ IF commits' = <<>>
               THEN err' = "No commits found." /\ pc' = "done"
               ELSE err' = "" /\ pc' = "baseline"
    /\ index' = <<>>
    /\ UNCHANGED <<profiles, velocities, times, burst, pos, results, finalRes,
                   llmCalls>>
    /\ UNCHANGED <<aggVars, scanInputs, leaderboard, callVars, devVars>>

\* Lines 39-41: the author profiles are built from the extended history.
ScanBaseline ==
    /\ pc = "baseline"
    /\ profiles' = BuildProfiles(
           GetCommits(history, Max(count * HistoryFactor, MinHistory)))
    /\ pc' = "velocity"
    /\ UNCHANGED <<commits, velocities, times, burst, index, pos, results,
                   finalRes, llmCalls, err>>
    /\ UNCHANGED <<aggVars, scanInputs, leaderboard, callVars, devVars>>

\* Lines 44-65: velocities and the commit times of each author.
ScanVelocity ==
    /\ pc = "velocity"
    /\ velocities' = VelocityPass(commits).vel
    /\ times' = VelocityPass(commits).times
    /\ pc' = "burst"
    /\ UNCHANGED <<commits, profiles, burst, index, pos, results, finalRes,
                   llmCalls, err>>
    /\ UNCHANGED <<aggVars, scanInputs, leaderboard, callVars, devVars>>

\* Lines 68-78: burst detection.
ScanBurst ==
    /\ pc = "burst"
    /\ burst' = BurstCommits(times)
    /\ times' = [a \in DOMAIN times |-> SortByTime(times[a])]
    /\ pc' = "analyze"
    /\ pos' = 1
    /\ results' = <<>>
    /\ UNCHANGED <<commits, profiles, velocities, index, finalRes, llmCalls, err>>
    /\ UNCHANGED <<aggVars, scanInputs, leaderboard, callVars, devVars>>

\* The semantic model is asked only for a message and a diff long enough.
SemanticAsked(m, d) ==
    ~(Msgs[m].empty \/ IsFalsyDiff(d)) /\ ~(Msgs[m].words < 4 \/ Diffs[d].rawTokens < 8)

\* The LLM asked whatever use_llm says.
LlmAskedWhenDisabled(res, useLlmFlag) == 35 <= res.score /\ res.score <= 50

\* The LLM is asked only when use_llm holds and the score is borderline.
LlmAsked(res, useLlmFlag) == useLlmFlag /\ 35 <= res.score /\ res.score <= 50

\* Lines 81-124: one turn of the loop over commits.
ScanAnalyze ==
    /\ pc = "analyze"
    /\ pos <= Len(commits)
    /\ LET c == commits[pos]
           d == GetCommitDiff(c)
       IN  /\ \E semAnswer \in IF SemanticAsked(c.msg, d) THEN ScanSemanticAnswers
                               ELSE {SemanticAnswer("missing", 0)} :
                 LET in == CommitInputs(c, profiles, velocities, burst, index,
                                        seed, semAnswer)
                 IN  \E roundUp \in IF FinalScore(in) % 100 = 50 THEN BOOLEAN
                                    ELSE {TRUE} :
                         LET agg == Compute(in, roundUp)
                         IN  \E llmAnswer \in IF LlmAsked(agg, useLlm) THEN LlmAnswers
                                              ELSE {[score |-> LlmNoOpinion,
                                                     reason |-> "LLM verdict"]} :
                                 /\ results' = Append(results,
                                        ResultEntry(c, Adjudicate(agg, useLlm, llmAnswer)))
                                 /\ finalRes' = Append(finalRes, agg)
                                 /\ llmCalls' =
                                        IF LlmAsked(agg, useLlm)
                                        THEN Append(llmCalls,
                                                 [hash |-> c.sha, answer |-> llmAnswer])
                                        ELSE llmCalls
           /\ index' = IndexAdd(index, c.sha, c.author, d, seed)
    /\ pos' = pos + 1
    /\ UNCHANGED <<pc, commits, profiles, velocities, times, burst, err>>
    /\ UNCHANGED <<aggVars, scanInputs, leaderboard, callVars, devVars>>

\* A turn of the loop in which loading the semantic model raises something
\* other than ImportError: SemanticDetector.analyze raises, nothing in
\* _get_analysis_data or in its callers catches it, and the results list is
\* gone with the frame.
ScanSemanticLoadFails ==
    /\ pc = "analyze"
    /\ pos <= Len(commits)
    /\ SemanticAsked(commits[pos].msg, GetCommitDiff(commits[pos]))
    /\ pc' = "semanticLoadFailed"
    /\ results' = <<>>
    /\ UNCHANGED <<commits, profiles, velocities, times, burst, index, pos,
                   finalRes, llmCalls, err>>
    /\ UNCHANGED <<aggVars, scanInputs, leaderboard, callVars, devVars>>

\* The user interrupts the scan between two commits: KeyboardInterrupt
\* leaves the loop and _get_analysis_data, and the results list is gone
\* with the frame.
ScanInterrupt ==
    /\ pc = "analyze"
    /\ pos <= Len(commits)
    /\ pc' = "interrupted"
    /\ results' = <<>>
    /\ UNCHANGED <<commits, profiles, velocities, times, burst, index, pos,
                   finalRes, llmCalls, err>>
    /\ UNCHANGED <<aggVars, scanInputs, leaderboard, callVars, devVars>>

\* Line 125: return results, None
ScanReturn ==
    /\ pc = "analyze"
    /\ pos > Len(commits)
    /\ pc' = "done"
    /\ UNCHANGED <<scanVars, aggVars, scanInputs, leaderboard,
                   callVars, devVars>>

Next ==
    \/ ScanStart
    \/ ScanBaseline
    \/ ScanVelocity
    \/ ScanBurst
    \/ ScanAnalyze
    \/ ScanSemanticLoadFails
    \/ ScanInterrupt
    \/ ScanReturn

Spec == InitScan /\ [][Next]_vars

\* ------------------------------------------------------------------------
\* Scans of repositories with empty diffs and empty messages
\* ------------------------------------------------------------------------

MaxEmptyCommits == 3

EmptyChoices ==
    { <<"A", 30, c[1], c[2]>> :
        c \in { <<"convLong", "empty">>, <<"none", "dup12">>,
                <<"none", "empty">>, <<"plain", "dup12">> } }

EmptyCounts == {2, 4}

InitEmptyInputs ==
    /\ pc = "start"
    /\ pathExists = TRUE /\ repoValid = TRUE
    /\ IsHistory(history, MaxEmptyCommits, ScanRoots, EmptyChoices)
    /\ count \in EmptyCounts
    /\ useLlm = TRUE /\ seed = 0
    /\ ScanVarsIdle /\ AggIdle /\ DevIdle /\ StatsIdle /\ CallIdle

SpecEmptyInputs == InitEmptyInputs /\ [][Next]_vars

\* ------------------------------------------------------------------------
\* Scans of one repository in processes with different hash keys
\* ------------------------------------------------------------------------

MaxRunCommits == 2

RunChoices ==
    { <<a, 30, "plain", d>> : a \in Authors, d \in {"dup12", "dupB12"} }

InitRuns ==
    /\ pc = "start"
    /\ pathExists = TRUE /\ repoValid = TRUE
    /\ IsHistory(history, MaxRunCommits, ScanRoots, RunChoices)
    /\ count \in {1, 3}
    /\ useLlm \in BOOLEAN
    /\ seed \in Seeds
    /\ ScanVarsIdle /\ AggIdle /\ DevIdle /\ StatsIdle /\ CallIdle

SpecRuns == InitRuns /\ [][Next]_vars

\* ------------------------------------------------------------------------
\* Velocity and burst detection on longer windows (main.py, lines 44-78)
\* ------------------------------------------------------------------------

MaxBurstCommits == 6

BurstChoices ==
    { <<"A", 60, "plain", "s20">>, <<"A", 60, "plain", "s21">>,
      <<"A", 420, "plain", "s21">>, <<"A", 1200, "plain", "s21">>,
      <<"B", 60, "plain", "s21">> }

\* The scanned window is the whole history.
InitBurst ==
    /\ pc = "velocity"
    /\ pathExists = TRUE /\ repoValid = TRUE
    /\ IsHistory(history, MaxBurstCommits, {<<"A", 0, "plain", "empty">>},
                 BurstChoices)
    /\ Len(history) >= 2
    /\ count = Len(history)
    /\ useLlm = FALSE /\ seed = 0
    /\ commits = GetCommits(history, count)
    /\ profiles = EmptyMap /\ velocities = EmptyMap /\ times = EmptyMap
    /\ burst = {} /\ index = <<>> /\ pos = 1 /\ results = <<>> /\ err = ""
    /\ finalRes = <<>> /\ llmCalls = <<>>
    /\ AggIdle /\ DevIdle /\ StatsIdle /\ CallIdle

NextBurst == ScanVelocity \/ ScanBurst

SpecBurst == InitBurst /\ [][NextBurst]_vars

\* ------------------------------------------------------------------------
\* The velocity pass on histories of two authors, some of whose commits
\* carry the time of the commit before them: main.py, lines 43-78
\* ------------------------------------------------------------------------

\* The largest number of commits after the root commit.
MaxVelocityCommits == 3

VelocityChoices ==
    { <<a, dt, "plain", d>> :
        a \in Authors, dt \in {0, 60}, d \in {"log6", "s21"} }

\* The scanned window is the whole history or its two newest commits.
InitVelocity ==
    /\ pc = "velocity"
    /\ pathExists = TRUE /\ repoValid = TRUE
    /\ IsHistory(history, MaxVelocityCommits, ScanRoots, VelocityChoices)
    /\ Len(history) >= 2
    /\ count \in {2, Len(history)}
    /\ useLlm = FALSE /\ seed = 0
    /\ commits = GetCommits(history, count)
    /\ profiles = EmptyMap /\ velocities = EmptyMap /\ times = EmptyMap
    /\ burst = {} /\ index = <<>> /\ pos = 1 /\ results = <<>> /\ err = ""
    /\ finalRes = <<>> /\ llmCalls = <<>>
    /\ AggIdle /\ DevIdle /\ StatsIdle /\ CallIdle

SpecVelocity == InitVelocity /\ [][NextBurst]_vars

\* ------------------------------------------------------------------------
\* analyze_structural_regularity on its own: structural.py, lines 36-90
\* ------------------------------------------------------------------------

\* What is measured on a diff: the number of non-blank lines, the
\* coefficient of variation of their lengths and the inter-decile range
\* ratio (in hundredths), the number of blank-line gaps and the coefficient
\* of variation of their lengths.  Lines of one length (cv = 0) have range
\* 0, and fewer than two gaps have no variation.
StructuralInputs ==
    { f \in { [BaseDiff EXCEPT !.lines = n, !.cv = cv, !.range = r,
                               !.gaps = g, !.gapCv = gcv] :
                n \in {0, 7, 8, 15, 16, 20, 21, 30},
                cv \in {0, 5, 24, 25, 34, 35, 60},
                r \in {0, 49, 50, 90},
                g \in {0, 2, 3, 5},
                gcv \in {0, 29, 30, 80} } :
        /\ f.cv = 0 => f.range = 0
        /\ f.gaps < 2 => f.gapCv = 0 }

InitStructural ==
    /\ pc = "structural"
    /\ structIn \in StructuralInputs
    /\ structOut = Res(-1, <<>>)
    /\ simIn = NoCall /\ simOut = Res(-1, <<>>) /\ matches = <<>>
    /\ ScanInputsIdle /\ ScanVarsIdle /\ AggIdle /\ DevIdle /\ StatsIdle

\* analyze_structural_regularity(diff)
StructuralAnalyze ==
    /\ pc = "structural"
    /\ structOut' = AnalyzeStructuralOn(structIn)
    /\ pc' = "structuralDone"
    /\ UNCHANGED <<structIn, simIn, simOut, matches>>
    /\ UNCHANGED <<aggVars, scanInputs, scanVars, leaderboard, devVars>>

NextStructural == StructuralAnalyze

SpecStructural == InitStructural /\ [][NextStructural]_vars

\* ------------------------------------------------------------------------
\* The author baseline on its own: build_profiles, then analyze_deviation
\* ------------------------------------------------------------------------

MaxBaselineCommits == 10

BaselineChoices == {<<"A", 60, "plain", "s10">>, <<"A", 60, "plain", "s30">>}

DevDiffs == {"empty", "s10", "s30", "s100", "styled30"}

InitBaseline ==
    /\ pc = "build"
    /\ pathExists = TRUE /\ repoValid = TRUE
    /\ IsHistory(history, MaxBaselineCommits, {<<"A", 0, "plain", "empty">>},
                 BaselineChoices)
    /\ count = 1 /\ useLlm = FALSE /\ seed = 0
    /\ ScanVarsIdle /\ AggIdle
    /\ devIn \in [author : Authors, diff : DevDiffs]
    /\ devOut = Res(-1, <<>>)
    /\ StatsIdle /\ CallIdle

\* author_baseline.build_profiles(commits, get_commit_diff)
BaselineBuild ==
    /\ pc = "build"
    /\ profiles' = BuildProfiles(history)
    /\ pc' = "deviation"
    /\ UNCHANGED <<commits, velocities, times, burst, index, pos, results,
                   finalRes, llmCalls, err>>
    /\ UNCHANGED <<aggVars, scanInputs, leaderboard, callVars, devVars>>

\* author_baseline.analyze_deviation(author, diff)
BaselineAnalyze ==
    /\ pc = "deviation"
    /\ devOut' = AnalyzeDeviation(profiles, devIn.author, devIn.diff)
    /\ pc' = "deviationDone"
    /\ UNCHANGED <<devIn, scanVars, aggVars, scanInputs, leaderboard,
                   callVars>>

NextBaseline == BaselineBuild \/ BaselineAnalyze

SpecBaseline == InitBaseline /\ [][NextBaseline]_vars

\* ------------------------------------------------------------------------
\* The author leaderboard: main.py, stats_cmd, on the results of a scan
\* ------------------------------------------------------------------------

\* r["score"] >= 0.7
HighAiScore == 70

\* The keys of the dict authors, in the order of insertion.
RECURSIVE AuthorsInOrder(_)
AuthorsInOrder(rs) ==
    IF rs = <<>> THEN <<>>
    ELSE LET front == AuthorsInOrder(SubSeq(rs, 1, Len(rs) - 1))
             a == rs[Len(rs)].author
         IN  IF a \in Range(front) THEN front ELSE Append(front, a)

\* The scores of the results of author a.
ScoresOf(rs, a) ==
    LET own == SelectSeq(rs, LAMBDA r : r.author = a)
    IN  [i \in 1..Len(own) |-> own[i].score]

\* sum is in hundredths and sum / n is halfway between two thousandths.
IsThousandthsTie(sum, n) == 2 * ((sum * 10) % n) = n

\* The mean cut off after the third decimal.
RoundedMeanTruncated(sum, n, roundUp) == (sum * 10) \div n

\* round(avg, 3), in thousandths, of avg = sum_score / total_commits; the
\* direction in which a halfway value goes depends on the float.
RoundedMean(sum, n, roundUp) ==
    LET q == (sum * 10) \div n
        r == (sum * 10) % n
    IN  IF 2 * r > n \/ (2 * r = n /\ roundUp) THEN q + 1 ELSE q

\* The leaderboard entry of author a.
LeaderboardRow(rs, a, roundUp) ==
    LET scores == ScoresOf(rs, a)
    IN  [ author |-> a,
          commits_analyzed |-> Len(scores),
          avg_score |-> RoundedMean(SumSeq(scores), Len(scores), roundUp),
          high_ai_commits |->
              Cardinality({i \in 1..Len(scores) : scores[i] >= HighAiScore}) ]

\* The place of row in a list sorted by avg_score, highest first: behind
\* the rows that are not lower.
RECURSIVE InsertByAvgScore(_, _)
InsertByAvgScore(sorted, row) ==
    IF sorted = <<>> THEN <<row>>
    ELSE IF Head(sorted).avg_score >= row.avg_score
    THEN <<Head(sorted)>> \o InsertByAvgScore(Tail(sorted), row)
    ELSE <<row>> \o sorted

\* sorted(leaderboard, key=lambda x: x["avg_score"], reverse=True)
RECURSIVE SortByAvgScore(_)
SortByAvgScore(rows) ==
    IF rows = <<>> THEN <<>>
    ELSE InsertByAvgScore(SortByAvgScore(SubSeq(rows, 1, Len(rows) - 1)),
                          rows[Len(rows)])

MaxStatsResults == 4

StatsAuthors == {"A", "B", "C"}

StatsScores == {10, 11, 70}

\* The results of a scan of n commits with the given authors and scores.
StatsResults(n, authorOf, scoreOf) ==
    [i \in 1..n |->
        ResultEntry([sha |-> n + 1 - i, author |-> authorOf[i]],
                    [score |-> scoreOf[i], reasons |-> <<FallbackReason>>])]

InitStats ==
    /\ pc = "stats"
    /\ \E n \in 1..MaxStatsResults :
           \E authorOf \in [1..n -> StatsAuthors], scoreOf \in [1..n -> StatsScores] :
               results = StatsResults(n, authorOf, scoreOf)
    /\ ScanInputsIdle
    /\ commits = <<>> /\ profiles = EmptyMap /\ velocities = EmptyMap
    /\ times = EmptyMap /\ burst = {} /\ index = <<>> /\ pos = 1
    /\ finalRes = <<>> /\ llmCalls = <<>> /\ err = ""
    /\ AggIdle /\ DevIdle /\ StatsIdle /\ CallIdle

\* Lines 183-218: the results are aggregated by author, the rows are made
\* and sorted.
StatsLeaderboard ==
    /\ pc = "stats"
    /\ \E roundUp \in [StatsAuthors -> BOOLEAN] :
           /\ \A a \in StatsAuthors :
                  IsThousandthsTie(SumSeq(ScoresOf(results, a)),
                                   Max(1, Len(ScoresOf(results, a))))
                      \/ roundUp[a]
           /\ leaderboard' =
                  SortByAvgScore(
                      [k \in 1..Len(AuthorsInOrder(results)) |->
                          LeaderboardRow(results, AuthorsInOrder(results)[k],
                                         roundUp[AuthorsInOrder(results)[k]])])
    /\ pc' = "statsDone"
    /\ UNCHANGED <<aggVars, scanInputs, scanVars, devVars, callVars>>

NextStats == StatsLeaderboard

SpecStats == InitStats /\ [][NextStats]_vars

\* ------------------------------------------------------------------------
\* SimHashIndex on its own: structural.py, a SimHashIndex(0.82) that is
\* handed commits one after the other, as the loop of main.py does, and is
\* asked for the duplicates of any of them in between.
\* ------------------------------------------------------------------------

\* The largest number of commits handed to the index.
MaxIndexCommits == 3

\* The hexshas of the commits, in the order they are handed over; the first
\* two start with the same seven characters.
IndexShas == <<10, 11, 20, 30>>

IndexDiffs == {"dup12", "uniform30", "near12", "mod12", "log6"}

InitIndex ==
    /\ pc = "index"
    /\ seed = 0
    /\ \E n \in 1..MaxIndexCommits :
           \E cs \in [1..n -> Authors \X IndexDiffs] :
               commits = [i \in 1..n |->
                            Commit(IndexShas[i], cs[i][1], 0, 1, "plain",
                                   cs[i][2])]
    /\ pathExists = TRUE /\ repoValid = TRUE /\ history = <<>>
    /\ count = 1 /\ useLlm = FALSE
    /\ profiles = EmptyMap /\ velocities = EmptyMap /\ times = EmptyMap
    /\ burst = {}
    /\ index = <<>> /\ pos = 1 /\ results = <<>>
    /\ finalRes = <<>> /\ llmCalls = <<>> /\ err = ""
    /\ AggIdle /\ DevIdle /\ StatsIdle /\ CallIdle

\* simhash_index.analyze(commit.hexsha, author, diff) for the next commit.
IndexAnalyze ==
    /\ pc = "index"
    /\ pos <= Len(commits)
    /\ LET c == commits[pos]
           d == GetCommitDiff(c)
       IN  /\ simIn' = [op |-> "analyze", place |-> pos]
           /\ matches' = FindDuplicates(index, c.sha, d, seed)
           /\ simOut' = SimilarityResult(index, c.sha, c.author, d, seed)
           /\ index' = IndexAdd(index, c.sha, c.author, d, seed)
    /\ pos' = pos + 1
    /\ UNCHANGED <<pc, commits, profiles, velocities, times, burst, results,
                   finalRes, llmCalls, err>>
    /\ UNCHANGED <<aggVars, scanInputs, leaderboard, devVars, structIn,
                   structOut>>

\* simhash_index.find_duplicates(commit.hexsha, author, diff) for any of
\* the commits.
IndexFindDuplicates ==
    /\ pc = "index"
    /\ \E i \in 1..Len(commits) :
           /\ simIn' = [op |-> "find_duplicates", place |-> i]
           /\ matches' = FindDuplicates(index, commits[i].sha,
                                        GetCommitDiff(commits[i]), seed)
    /\ UNCHANGED <<simOut, scanVars, pc>>
    /\ UNCHANGED <<aggVars, scanInputs, leaderboard, devVars, structIn,
                   structOut>>

NextIndex == IndexAnalyze \/ IndexFindDuplicates

SpecIndex == InitIndex /\ [][NextIndex]_vars

\* ------------------------------------------------------------------------
\* Properties of ScoreAggregator.compute (SpecAgg)
\* ------------------------------------------------------------------------

AggDone == pc = "aggDone"

AllZeroInput ==
    /\ \A i \in 1..6 : SubResults(aggIn)[i].score = 0
    /\ aggIn.velocity.num = 0
    /\ aggIn.burst = 0

\* C1: compute, given all six sub-scores exactly 0, velocity 0 and no burst,
\* returns score exactly 0, band "Likely Human" and a reasons list that is
\* the single fallback reason.
C1_AllZeroIsHuman ==
    (AggDone /\ AllZeroInput) =>
        /\ aggOut.score = 0
        /\ aggOut.band = "Likely Human"
        /\ aggOut.reasons = <<"No strong AI signals detected">>

C1_Witness == AggDone /\ AllZeroInput

\* The score the written formula gives for the call's arguments, in
\* ten-thousandths: min(1, weighted base + velocity bonus + burst bonus
\* + amplification + consensus bonus).
StatedScore ==
    LET t  == aggIn.text.score
        c  == aggIn.code.score
        st == aggIn.structural.score
        si == aggIn.similarity.score
        se == aggIn.semantic.score
        b  == aggIn.baseline.score
        all == <<t, c, st, si, se, b>>
        base == 10 * t + 50 * c + 15 * st + 15 * si + 10 * se + 15 * b
        v == aggIn.velocity
        velocityBonus ==
            IF v.num > 50 * v.den THEN 1500
            ELSE IF v.num > 20 * v.den THEN 900
            ELSE 0
        burstBonus == IF aggIn.burst > 0 THEN 1000 ELSE 0
        amplification == IF \E i \in 1..6 : all[i] >= 50 THEN 2000 ELSE 0
        suspects == Cardinality({i \in 1..6 : all[i] >= 30})
        consensus == IF suspects >= 2 THEN 2500
                     ELSE IF suspects = 1 THEN 1000
                     ELSE 0
        total == base + velocityBonus + burstBonus + amplification + consensus
    IN  IF total > 10000 THEN 10000 ELSE total

OnlyCodeIsOne ==
    /\ aggIn.code.score = 100
    /\ \A i \in {1, 3, 4, 5, 6} : SubResults(aggIn)[i].score = 0
    /\ aggIn.velocity.num = 0
    /\ aggIn.burst = 0

NoSignalReasons ==
    { "No strong text signals", "Empty commit message",
      "No code added", "No valid diff lines",
      "Organic AST structural complexity", "Organic raw complexity",
      "Organic structural variation", "Diff too small for structural analysis",
      "No near-duplicate commits found", "No strong similarity signals",
      "Natural human-style message-code divergence",
      "Too short for semantic analysis", "Missing message or diff",
      "Style consistent with author baseline", "No baseline available",
      "Insufficient baseline history" }

\* The reason parts the call's sub-results qualify for the list: those of
\* the sub-results with a score > 0 that are no "no signal" reason, in the
\* order text, code, structural, similarity, semantic, baseline, then the
\* velocity reason and the burst reason.
QualifyingReasons ==
    LET subs == <<aggIn.text, aggIn.code, aggIn.structural, aggIn.similarity,
                  aggIn.semantic, aggIn.baseline>>
        parts(r) == IF r.score > 0
                    THEN SelectSeq(r.reason, LAMBDA x : x \notin NoSignalReasons)
                    ELSE <<>>
        v == aggIn.velocity
        velocityReason ==
            IF v.num > 50 * v.den THEN <<"Impossible human typing velocity">>
            ELSE IF v.num > 20 * v.den THEN <<"Abnormally high commit velocity">>
            ELSE <<>>
        burstReason ==
            IF aggIn.burst > 0
            THEN <<"Commit-burst: rapid large-diff sequence within 10 min window">>
            ELSE <<>>
    IN  parts(subs[1]) \o parts(subs[2]) \o parts(subs[3]) \o parts(subs[4])
        \o parts(subs[5]) \o parts(subs[6]) \o velocityReason \o burstReason

\* C11: the reasons list compute returns holds only the non-empty,
\* non-sentinel reason parts of the sub-results whose score is > 0, in the
\* order of the engines, then the velocity reason and the burst reason; no
\* detector's "no signal" reason appears in it, and it is the single
\* fallback reason exactly when nothing qualifies.
C11_ReasonsWithoutSentinels ==
    AggDone =>
        /\ \A k \in 1..Len(aggOut.reasons) : aggOut.reasons[k] \notin NoSignalReasons
        /\ aggOut.reasons =
              IF QualifyingReasons = <<>> THEN <<"No strong AI signals detected">>
              ELSE QualifyingReasons

\* ------------------------------------------------------------------------
\* Properties of a scan (Spec, SpecRuns)
\* ------------------------------------------------------------------------

\* The one threshold policy: below 0.20, below 0.50, and from 0.50 on.
PolicyBand(score) ==
    IF score < 20 THEN "Likely Human"
    ELSE IF score < 50 THEN "Mixed / Uncertain"
    ELSE "Likely AI-assisted"

\* C4: in every per-commit result of a scan the band is derived from the
\* reported score by the one threshold policy: score < 0.20 gives "Likely
\* Human", 0.20 <= score < 0.50 gives "Mixed / Uncertain", and score >= 0.50
\* (exactly 0.50 included) gives "Likely AI-assisted".
C4_OneBandPolicy ==
    \A i \in 1..Len(results) : results[i].band = PolicyBand(results[i].score)

\* Commit c repeats the token content (at least 10 tokens) of a commit of
\* the scanned window that is chronologically earlier.
RepeatsEarlierCommit(c) ==
    \E j \in 1..Len(commits) :
        /\ commits[j].sha < c.sha
        /\ Len(Diffs[GetCommitDiff(c)].tokens) >= MinTokens
        /\ Diffs[GetCommitDiff(commits[j])].tokens = Diffs[GetCommitDiff(c)].tokens

\* C5: in a scan, when the commit about to be analyzed has the same token
\* content (at least 10 tokens) as a chronologically earlier commit of the
\* scanned window, the similarity engine gives it, the later commit, a
\* near-duplicate score >= 0.8.
C5_LaterCommitIsTheDuplicate ==
    (pc = "analyze" /\ pos <= Len(commits) /\ RepeatsEarlierCommit(commits[pos])) =>
        SimilarityResult(index, commits[pos].sha, commits[pos].author,
                         GetCommitDiff(commits[pos]), seed).score >= 80

\* The commits an author's profile is built from: the oldest half of the
\* author's entries in the extended history.
BaselineShas(a) ==
    LET data == AuthorData(GetCommits(history, Max(count * HistoryFactor, MinHistory)))
    IN  IF a \in DOMAIN data
        THEN {e.sha : e \in Range(BaselineEntries(data[a]))}
        ELSE {}

\* C6: no baseline leakage: no commit a scan has scored is among the
\* baseline entries of its own author's profile.
C6_NoBaselineLeakage ==
    \A i \in 1..Len(results) :
        results[i].hash \notin BaselineShas(results[i].author)

\* Result i of the scan went to the adjudicator.
Adjudicated(i) == \E k \in 1..Len(llmCalls) : llmCalls[k].hash = results[i].hash

\* The borderline band [0.35, 0.50].
Borderline(score) == 35 <= score /\ score <= 50

\* C13: during a scan the adjudicator is invoked for a commit only when LLM
\* use is enabled and the aggregate score of the commit lies in [0.35, 0.50];
\* for every other commit, and for every commit when LLM use is disabled,
\* the reported score and reasons are exactly those of the aggregator.
C13_AdjudicatorOnlyWhenBorderline ==
    \A i \in 1..Len(results) :
        /\ Adjudicated(i) => useLlm /\ Borderline(finalRes[i].score)
        /\ ~(useLlm /\ Borderline(finalRes[i].score)) =>
               /\ results[i].score = finalRes[i].score
               /\ results[i].reasons = finalRes[i].reasons

\* A scan with LLM use enabled has reported a commit the adjudicator was
\* asked about and a commit it was not asked about.
C13_Witness ==
    /\ useLlm
    /\ \E i \in 1..Len(results) : Adjudicated(i)
    /\ \E i \in 1..Len(results) : ~Adjudicated(i) /\ finalRes[i].score > 50

\* The place in results of the commit a call of the adjudicator was about.
ResultOfCall(k) ==
    CHOOSE i \in 1..Len(results) : results[i].hash = llmCalls[k].hash

\* C14: when the adjudicator is consulted and returns the sentinel -1, the
\* aggregate score and the reasons stand unchanged; when it returns any
\* other score, the reported score is the adjudicator's, the adjudicator's
\* reason and then the disclosure note follow all the aggregator's reasons,
\* and the reported band is the band of the replaced score.
C14_AdjudicatorAnswerApplied ==
    \A k \in 1..Len(llmCalls) :
        LET i == ResultOfCall(k)
            answer == llmCalls[k].answer
        IN  IF answer.score = LlmNoOpinion
            THEN /\ results[i].score = finalRes[i].score
                 /\ results[i].reasons = finalRes[i].reasons
            ELSE /\ results[i].score = answer.score
                 /\ results[i].reasons =
                        finalRes[i].reasons \o <<answer.reason, LlmNote>>
                 /\ results[i].band = PolicyBand(answer.score)

\* The same with the band left out.
AdjudicatorScoreAndReasonsApplied ==
    \A k \in 1..Len(llmCalls) :
        LET i == ResultOfCall(k)
            answer == llmCalls[k].answer
        IN  IF answer.score = LlmNoOpinion
            THEN /\ results[i].score = finalRes[i].score
                 /\ results[i].reasons = finalRes[i].reasons
            ELSE /\ results[i].score = answer.score
                 /\ results[i].reasons =
                        finalRes[i].reasons \o <<answer.reason, LlmNote>>

\* The scan is over and nobody interrupted it.
ScanOver == pc \in {"done", "noSuchPath", "semanticLoadFailed"}

\* The path is not a readable repository, or the repository yields no
\* commits.
BackendFailure ==
    ~pathExists \/ ~repoValid \/ GetCommits(history, count) = <<>>

\* The caller is handed an error, no per-commit result, and no detector has
\* run.
ScanLevelFailure ==
    pc = "done" /\ err # "" /\ results = <<>> /\ finalRes = <<>>

\* C15: a scan returns a scan-level failure (error, no per-commit results,
\* no detector run) exactly when the path is not a readable repository or
\* the repository yields no commits; under every other condition (empty
\* diffs, root commits, missing baseline, too-small diffs) it returns no
\* error and one result for each commit of the window.
C15_ScanLevelFailureOnlyForBackend ==
    ScanOver =>
        /\ ScanLevelFailure <=> BackendFailure
        /\ ~BackendFailure =>
               /\ pc = "done" /\ err = ""
               /\ Len(results) = Len(GetCommits(history, count))

\* The same for paths that exist and scans in which loading the semantic
\* model does not fail.
ScanLevelFailureForExistingPath ==
    (pc = "done" /\ pathExists) =>
        /\ ScanLevelFailure <=> BackendFailure
        /\ ~BackendFailure =>
               /\ err = ""
               /\ Len(results) = Len(GetCommits(history, count))

\* The reasons that name the semantic model as missing or failing.
SemanticFailureReasons ==
    { "Semantic model not installed (pip install sentence-transformers)",
      "Semantic analysis failed" }

\* The reasons that name the perplexity model as missing or failing:
\* text.py has none, _perplexity returns 999.0 and says nothing.
TextFailureReasons == {}

\* C17: when an external collaborator (the semantic-coherence model, the
\* text-perplexity model) is unavailable or fails, at model load or at
\* inference and whatever the error, its result is a score-0 DetectorResult
\* with a reason identifying the collaborator, and the failure never leaves
\* the per-commit analysis: the scan still produces a result for that
\* commit and for all following commits.
C17_CollaboratorFailureContained ==
    /\ pc # "semanticLoadFailed"
    /\ (pc = "done" /\ err = "") => Len(results) = Len(commits)
    /\ (pc = "analyze" /\ pos <= Len(commits)) =>
           LET c == commits[pos]
               d == GetCommitDiff(c)
           IN  /\ SemanticAsked(c.msg, d) =>
                      \A kind \in {"missing", "raises"} :
                          LET res == AnalyzeSemantic(c.msg, d, SemanticAnswer(kind, 0))
                          IN  res.score = 0 /\ res.reason[1] \in SemanticFailureReasons
               /\ (Msgs[c.msg].words >= 8 /\ Msgs[c.msg].gpt2Fails) =>
                      LET res == AnalyzeText(c.msg, NonBlankLines(d))
                      IN  res.score = 0 /\ res.reason[1] \in TextFailureReasons

\* The part of it that holds: a semantic model that is not installed or
\* that raises at inference gives score 0 with a reason that names it, a
\* perplexity model that fails adds nothing to the text score, and a scan
\* that returns has a result for every commit.
CaughtFailuresContained ==
    /\ (pc = "done" /\ err = "") => Len(results) = Len(commits)
    /\ (pc = "analyze" /\ pos <= Len(commits)) =>
           LET c == commits[pos]
               d == GetCommitDiff(c)
           IN  /\ SemanticAsked(c.msg, d) =>
                      \A kind \in {"missing", "raises"} :
                          LET res == AnalyzeSemantic(c.msg, d, SemanticAnswer(kind, 0))
                          IN  res.score = 0 /\ res.reason[1] \in SemanticFailureReasons
               /\ (Msgs[c.msg].words >= 8 /\ Msgs[c.msg].gpt2Fails) =>
                      TextSignals(c.msg, NonBlankLines(d))[8].score = 0

\* The scan was aborted in the loop: the user interrupted it, or the
\* processing of commits[pos] failed.
ScanAborted == pc \in {"interrupted", "semanticLoadFailed"}

\* C18: if a scan is aborted between two commits (cancellation, or a
\* failure while processing a later commit), the per-commit results already
\* computed for the earlier commits are returned to the caller rather than
\* discarded.
C18_AbortKeepsEarlierResults ==
    ScanAborted =>
        /\ Len(results) = pos - 1
        /\ \A i \in 1..(pos - 1) : results[i].hash = commits[i].sha

\* ------------------------------------------------------------------------
\* Properties of scans with empty inputs (SpecEmptyInputs)
\* ------------------------------------------------------------------------

\* The loop is about to analyze commits[pos].
AboutToAnalyze == pc = "analyze" /\ pos <= Len(commits)

\* What the six analyzers return for commits[pos] when the semantic model,
\* if it is consulted, gives semAnswer.
AnalyzerResults(semAnswer) ==
    CommitInputs(commits[pos], profiles, velocities, burst, index, seed,
                 semAnswer)

\* Analyzer e returns score 0 and a "no signal" reason for commits[pos].
NoSignalFrom(e) ==
    \A semAnswer \in ScanSemanticAnswers :
        /\ AnalyzerResults(semAnswer)[e].score = 0
        /\ Len(AnalyzerResults(semAnswer)[e].reason) = 1
        /\ AnalyzerResults(semAnswer)[e].reason[1] \in NoSignalReasons

\* The history the profiles are built from, without the commit sha.
ExtendedHistoryWithout(sha) ==
    SelectSeq(GetCommits(history, Max(count * HistoryFactor, MinHistory)),
              LAMBDA c : c.sha # sha)

\* commits[pos] changes neither the near-duplicate index nor the author
\* profiles.
LeavesIndexAndProfiles ==
    /\ IndexAdd(index, commits[pos].sha, commits[pos].author,
                GetCommitDiff(commits[pos]), seed) = index
    /\ BuildProfiles(ExtendedHistoryWithout(commits[pos].sha)) = profiles

\* No analyzer raises for commits[pos]: the one call that can raise, the
\* loading of the semantic model, is not made.
NoneRaises ==
    ~SemanticAsked(commits[pos].msg, GetCommitDiff(commits[pos]))

\* C16: for a commit whose diff is empty or whose message is empty, every
\* analyzer (structural regularity, near-duplicate, author baseline, code,
\* text, semantic) returns score 0 with a no-signal reason and none raises;
\* the near-duplicate index and the author profiles are left unchanged by
\* that commit.
C16_EmptyInputNoSignal ==
    ( /\ AboutToAnalyze
      /\ \/ IsEmptyDiff(GetCommitDiff(commits[pos]))
         \/ Msgs[commits[pos].msg].empty ) =>
        /\ \A e \in Range(EngineNames) : NoSignalFrom(e)
        /\ NoneRaises
        /\ LeavesIndexAndProfiles

\* C16, amended: for a commit whose diff is empty every analyzer of the
\* diff (structural regularity, near-duplicate, author baseline, code,
\* semantic) returns score 0 with a no-signal reason, and the index and the
\* profiles are left unchanged by that commit; for a commit whose message
\* is empty every analyzer of the message (text, semantic) returns score 0
\* with a no-signal reason; in both cases none raises.
C16_EmptyInputNoSignalFromItsAnalyzers ==
    AboutToAnalyze =>
        /\ IsEmptyDiff(GetCommitDiff(commits[pos])) =>
               /\ \A e \in Range(EngineNames) \ {"text"} : NoSignalFrom(e)
               /\ NoneRaises
               /\ LeavesIndexAndProfiles
        /\ Msgs[commits[pos].msg].empty =>
               /\ NoSignalFrom("text") /\ NoSignalFrom("semantic")
               /\ NoneRaises

\* A scan that has indexed a commit with an empty message and a 12-line
\* diff is about to analyze a commit with an empty diff and a conventional
\* message, whose author has a profile.
C16_Witness ==
    /\ AboutToAnalyze
    /\ IsEmptyDiff(GetCommitDiff(commits[pos]))
    /\ Msgs[commits[pos].msg].conventional
    /\ commits[pos].author \in DOMAIN profiles
    /\ index # <<>>
    /\ \E j \in 1..(pos - 1) :
           Msgs[commits[j].msg].empty /\ ~IsEmptyDiff(GetCommitDiff(commits[j]))

\* ------------------------------------------------------------------------
\* Properties of scans in different processes (SpecRuns)
\* ------------------------------------------------------------------------

\* The diff of the commit sha of the repository.
DiffOfSha(sha) ==
    GetCommitDiff(CHOOSE c \in Range(history) : c.sha = sha)

\* The near-duplicate index a scan of the same commits has at this point in
\* a process whose hash key is hashSeed.
IndexUnder(hashSeed) ==
    [k \in 1..Len(index) |->
        [index[k] EXCEPT !.hash = Fingerprints[hashSeed][DiffOfSha(index[k].sha)]]]

\* What the aggregator returns for commits[pos] in a process whose hash key
\* is hashSeed, with the given answer of the semantic model.
AggregateUnder(hashSeed, semAnswer, roundUp) ==
    Compute(CommitInputs(commits[pos], profiles, velocities, burst,
                         IndexUnder(hashSeed), hashSeed, semAnswer), roundUp)

\* The scan of this repository in any other process gives commits[pos] the
\* score, band and reasons this scan gives it.
SameResultInEveryRun ==
    \A hashSeed \in Seeds, semAnswer \in ScanSemanticAnswers, roundUp \in BOOLEAN :
        AggregateUnder(hashSeed, semAnswer, roundUp)
            = AggregateUnder(seed, semAnswer, roundUp)

\* The fingerprint of the diff of commits[pos] is the same in every process.
SameFingerprintInEveryRun ==
    \A hashSeed \in Seeds :
        Fingerprints[hashSeed][GetCommitDiff(commits[pos])]
            = Fingerprints[seed][GetCommitDiff(commits[pos])]

\* C19: two scans of the same commit sequence (same diffs, messages,
\* authors, timestamps and collaborator answers) produce identical
\* per-commit scores, bands and reasons; in particular the SimHash
\* fingerprint of a diff depends on its tokens only, not on the process run.
C19_ScansRepeatable ==
    AboutToAnalyze => SameResultInEveryRun /\ SameFingerprintInEveryRun

\* The results alone.
ResultsRepeatable == AboutToAnalyze => SameResultInEveryRun

\* The index and the indexed fingerprints do not depend on the order of
\* insertion: every entry holds the fingerprint of its own diff.
IndexEntriesOrderFree ==
    \A k \in 1..Len(index) :
        index[k].hash = SimHash(Diffs[DiffOfSha(index[k].sha)].tokens, seed)

\* ------------------------------------------------------------------------
\* Properties of burst detection (SpecBurst)
\* ------------------------------------------------------------------------

BurstDone == pc = "analyze"

\* The window that starts at commit i of commits: the places of commit i and
\* of the later commits of its author that are at most 10 minutes after it.
WindowFrom(i) ==
    { j \in 1..Len(commits) :
        /\ commits[j].author = commits[i].author
        /\ commits[j].sha >= commits[i].sha
        /\ commits[j].time - commits[i].time <= 600 }

LargeCommits(window) ==
    { j \in window : NonBlankLines(GetCommitDiff(commits[j])) > 20 }

\* At least 5 commits, at least 3 of them with more than 20 lines.
QualifyingWindow(window) ==
    Cardinality(window) >= 5 /\ Cardinality(LargeCommits(window)) >= 3

\* C8: burst completeness: for every commit taken as window start, if its
\* window qualifies then every commit of the window is burst-flagged; this
\* holds for every qualifying window of an author, not only the first one.
C8_BurstComplete ==
    BurstDone =>
        \A i \in 1..Len(commits) :
            QualifyingWindow(WindowFrom(i)) =>
                \A j \in WindowFrom(i) : commits[j].sha \in burst

\* C9: burst soundness: a commit is burst-flagged only if it lies in a
\* qualifying window of its own author; a later commit of the author outside
\* every qualifying window is not flagged, and commits of different authors
\* never combine into one window.
C9_BurstSound ==
    BurstDone =>
        \A j \in 1..Len(commits) :
            commits[j].sha \in burst =>
                \E i \in 1..Len(commits) :
                    QualifyingWindow(WindowFrom(i)) /\ j \in WindowFrom(i)

\* A burst of one author is flagged, a commit of the same author 20 minutes
\* after the burst is not, and a commit of another author made during the
\* burst is not.
C9_Witness ==
    /\ BurstDone
    /\ burst # {}
    /\ \E d \in Range(commits) :
          /\ d.author = "A" /\ d.sha \notin burst
          /\ \E c \in Range(commits) :
                c.sha \in burst /\ c.author = "A" /\ d.time - c.time >= 1200
    /\ \E d \in Range(commits) :
          /\ d.author = "B" /\ d.sha \notin burst
          /\ \E c \in Range(commits) : c.sha \in burst /\ c.time > d.time
          /\ \E c \in Range(commits) : c.sha \in burst /\ c.time < d.time

\* ------------------------------------------------------------------------
\* Properties of the author baseline (SpecBaseline)
\* ------------------------------------------------------------------------

DeviationDone == pc = "deviationDone"

HasProfile == devIn.author \in DOMAIN profiles

\* z > num / den for the call's diff and the author's profile, where
\*   z = |size - baseline_mean| / (baseline_stdev + 1)
\* and baseline_stdev is the sample standard deviation of the baseline
\* sizes.  With n sizes of sum S and sum of squares Q, and
\* D = |n * size - S|, z > num / den is den * D - num * n > 0 together with
\*   (den * D - num * n)^2 * (n - 1) > num^2 * n * (n * Q - S^2).
ZScoreAbove(num, den) ==
    LET p == profiles[devIn.author]
        size == Diffs[devIn.diff].lines
        dist == IF p.n * size >= p.sizeSum THEN p.n * size - p.sizeSum
                ELSE p.sizeSum - p.n * size
        lhs == den * dist - num * p.n
    IN  /\ lhs > 0
        /\ lhs * lhs * (p.n - 1) > num * num * p.n * (p.n * p.sizeSq - p.sizeSum * p.sizeSum)

\* C7: for a profile with at least 5 baseline commits and a non-empty diff,
\* if z > 2.0 then analyze_deviation returns a score >= 0.4, and if z is in
\* (1.2, 2.0] a score >= 0.2; an author with identical baseline commits and
\* a 10 times larger new commit gets a score >= 0.4.
C7_SizeOutlierScored ==
    (/\ DeviationDone
     /\ HasProfile
     /\ ~IsEmptyDiff(devIn.diff)
     /\ profiles[devIn.author].n >= 5) =>
        /\ ZScoreAbove(2, 1) => devOut.score >= 40
        /\ ZScoreAbove(6, 5) => devOut.score >= 20

\* C10, as claimed: analyze_deviation returns score 0 with the reason
\* "Insufficient baseline history" whenever the author's profile has fewer
\* than 5 baseline commits, and score 0 with "No baseline available" when
\* the author has no profile or the diff is empty.
C10_ShortBaselineReason ==
    DeviationDone =>
        /\ (HasProfile /\ profiles[devIn.author].n < 5) =>
               devOut = Res(0, <<"Insufficient baseline history">>)
        /\ (~HasProfile \/ IsEmptyDiff(devIn.diff)) =>
               devOut = Res(0, <<"No baseline available">>)

\* C10, amended: analyze_deviation returns score 0 with the reason "No
\* baseline available" when the author has no profile or the diff is empty,
\* and otherwise score 0 with "Insufficient baseline history" whenever the
\* profile has fewer than 5 baseline commits; no deviation signal counts in
\* these cases, and neither reason is "Style consistent with author
\* baseline".
C10_ShortBaselineReasonNonEmptyDiff ==
    DeviationDone =>
        /\ (HasProfile /\ ~IsEmptyDiff(devIn.diff) /\ profiles[devIn.author].n < 5) =>
               devOut = Res(0, <<"Insufficient baseline history">>)
        /\ (~HasProfile \/ IsEmptyDiff(devIn.diff)) =>
               devOut = Res(0, <<"No baseline available">>)
        /\ (~HasProfile \/ IsEmptyDiff(devIn.diff) \/ profiles[devIn.author].n < 5) =>
               devOut.reason # <<"Style consistent with author baseline">>

\* A call with a short baseline and a diff that deviates from it: a signal
\* would fire, and the call returns 0 for want of history.
C10_Witness ==
    /\ DeviationDone
    /\ HasProfile
    /\ ~IsEmptyDiff(devIn.diff)
    /\ profiles[devIn.author].n = 4
    /\ \E i \in 1..5 : DeviationSignals(profiles[devIn.author], devIn.diff)[i].score > 0
    /\ devOut = Res(0, <<"Insufficient baseline history">>)

\* ------------------------------------------------------------------------
\* Properties of two calls of compute (SpecPair)
\* ------------------------------------------------------------------------

PairDone == pc = "pairDone"

\* C12: compute is deterministic and monotonically non-decreasing in each
\* input: the same arguments give the same result, and with all other
\* arguments fixed, raising one sub-score, raising the velocity or setting
\* the burst flag never lowers the returned score.
C12_DeterministicAndMonotonic ==
    PairDone =>
        /\ aggIn2 = aggIn => aggOut2 = aggOut
        /\ aggOut2.score >= aggOut.score

\* A sub-score is raised from 0.3 to 0.5, which brings the amplification in,
\* and the returned score rises.
C12_Witness ==
    /\ PairDone
    /\ \E i \in 1..6 :
          /\ SubResults(aggIn)[i].score = 30
          /\ SubResults(aggIn2)[i].score = 50
          /\ \A k \in 1..6 : SubResults(aggIn)[k].score < 50
    /\ aggOut2.score > aggOut.score


\* ------------------------------------------------------------------------
\* Properties of the leaderboard (SpecStats)
\* ------------------------------------------------------------------------

StatsDone == pc = "statsDone"

\* The places in results of the results of author a.
ResultsOfAuthor(a) == {i \in 1..Len(results) : results[i].author = a}

\* The sum of the scores of author a, in hundredths.
RECURSIVE ScoreSum(_, _)
ScoreSum(a, n) ==
    IF n = 0 THEN 0
    ELSE ScoreSum(a, n - 1)
             + (IF results[n].author = a THEN results[n].score ELSE 0)

\* The sum of commits_analyzed over the first n rows.
RECURSIVE CommitsAnalyzed(_)
CommitsAnalyzed(n) ==
    IF n = 0 THEN 0 ELSE CommitsAnalyzed(n - 1) + leaderboard[n].commits_analyzed

\* One row for each author with a result, and no other row.
OneRowPerAuthor ==
    /\ \A i \in 1..Len(results) :
           \E k \in 1..Len(leaderboard) : leaderboard[k].author = results[i].author
    /\ \A k \in 1..Len(leaderboard) : ResultsOfAuthor(leaderboard[k].author) # {}
    /\ \A k, j \in 1..Len(leaderboard) :
           leaderboard[k].author = leaderboard[j].author => k = j

\* The rows are in non-increasing order of avg_score.
SortedByAvgScore ==
    \A k \in 1..(Len(leaderboard) - 1) :
        leaderboard[k].avg_score >= leaderboard[k + 1].avg_score

\* C20: the leaderboard has exactly one row per author that has at least
\* one result, its commitsAnalyzed values sum to the number of results,
\* avgScore is the mean of that author's scores, and the rows are sorted in
\* non-increasing order of average score.
C20_Leaderboard ==
    StatsDone =>
        /\ OneRowPerAuthor
        /\ CommitsAnalyzed(Len(leaderboard)) = Len(results)
        /\ \A k \in 1..Len(leaderboard) :
               LET a == leaderboard[k].author
               IN  /\ leaderboard[k].commits_analyzed = Cardinality(ResultsOfAuthor(a))
                   /\ leaderboard[k].avg_score * leaderboard[k].commits_analyzed
                          = 10 * ScoreSum(a, Len(results))
        /\ SortedByAvgScore

\* C20, amended: the same with avgScore the mean of the author's scores
\* rounded to three decimals, that is at most half a thousandth away from
\* the mean.
C20_LeaderboardRoundedMean ==
    StatsDone =>
        /\ OneRowPerAuthor
        /\ CommitsAnalyzed(Len(leaderboard)) = Len(results)
        /\ \A k \in 1..Len(leaderboard) :
               LET a == leaderboard[k].author
                   n == leaderboard[k].commits_analyzed
               IN  /\ n = Cardinality(ResultsOfAuthor(a))
                   /\ 2 * Abs(leaderboard[k].avg_score * n
                                  - 10 * ScoreSum(a, Len(results))) <= n
        /\ SortedByAvgScore

\* A leaderboard of two authors, one of them with three results whose
\* mean is not a whole number of thousandths, and a first row that is not
\* the author of the first result.
C20_Witness ==
    /\ StatsDone
    /\ Len(leaderboard) = 2
    /\ \E k \in 1..2 :
           /\ leaderboard[k].commits_analyzed = 3
           /\ (10 * ScoreSum(leaderboard[k].author, Len(results))) % 3 # 0
    /\ leaderboard[1].author # results[1].author

\* ------------------------------------------------------------------------
\* Properties of SimHashIndex (SpecIndex)
\* ------------------------------------------------------------------------

\* The step is a call of analyze, for commits[pos].
AnalyzeCall == simIn'.op = "analyze" /\ pos' = pos + 1

\* The step is a call of find_duplicates, for commits[simIn'.place].
FindCall == simIn'.op = "find_duplicates"

\* The Hamming distance between the fingerprints of commit c's diff and of
\* the k-th index entry.
DistanceTo(c, k) ==
    HammingDistance(Fingerprints[seed][GetCommitDiff(c)], index[k].hash)

HasTokens(c) == Len(Diffs[GetCommitDiff(c)].tokens) >= MinTokens

\* similarity = 1 - dist / 64 is at least percent / 100.
DistanceWithin(dist, percent) == 100 * (HashBits - dist) >= percent * HashBits

\* The index entries that commit c may match: another commit id, and a
\* similarity at or above the threshold.
Candidates(c) ==
    IF ~HasTokens(c) THEN {}
    ELSE { k \in 1..Len(index) :
             /\ index[k].sha # c.sha
             /\ DistanceWithin(DistanceTo(c, k), SimilarityThreshold) }

BestCandidates(c) ==
    { k \in Candidates(c) :
        \A j \in Candidates(c) : DistanceTo(c, k) <= DistanceTo(c, j) }

\* The score claimed for a best match at distance dist by otherAuthor.
ClaimedScore(dist, otherAuthor, author) ==
    LET base == IF DistanceWithin(dist, 92) THEN 80
                ELSE IF DistanceWithin(dist, 85) THEN 50
                ELSE IF DistanceWithin(dist, 80) THEN 25
                ELSE 0
    IN  IF otherAuthor # author /\ DistanceWithin(dist, 85)
        THEN Min(base + 20, 100)
        ELSE base

\* C21: analyze scores by the single most similar index entry at or above
\* the threshold: 0.8, 0.5 or 0.25 for a similarity of at least 0.92, 0.85
\* or 0.80, plus 0.2 (capped at 1.0) exactly when that entry's author is
\* another one and the similarity is at least 0.85; without such an entry
\* the score is 0 and the reason is the no-duplicate one.
C21_ScoredByBestMatch ==
    [][ AnalyzeCall =>
          LET c == commits[pos]
          IN  IF Candidates(c) = {}
              THEN simOut' = Res(0, <<"No near-duplicate commits found">>)
              ELSE /\ \E k \in BestCandidates(c) :
                         simOut'.score =
                             ClaimedScore(DistanceTo(c, k), index[k].author,
                                          c.author)
                   /\ simOut'.reason # <<"No near-duplicate commits found">>
      ]_vars

\* analyze has found two entries, the more similar one indexed later and
\* written by another author, and has scored 0.5 + 0.2.
C21_Witness ==
    /\ simIn.op = "analyze"
    /\ Len(matches) = 2
    /\ matches[1].dist < matches[2].dist
    /\ matches[1].author # commits[simIn.place].author
    /\ matches[2].author = commits[simIn.place].author
    /\ matches[1].sha = ShortSha(index[2].sha)
    /\ index[1].hash # index[2].hash
    /\ simOut.score = 70

\* The entry of commit c in the index.
EntryOf(c) ==
    [sha |-> c.sha, author |-> c.author,
     hash |-> Fingerprints[seed][GetCommitDiff(c)]]

\* C22: a call of analyze appends exactly one entry for its commit if the
\* diff has at least 10 tokens, whether or not a match was found, and
\* leaves the index as it is and returns score 0 if the diff has fewer
\* tokens; the entries already there stay as they are, and a call of
\* find_duplicates leaves the index unchanged.
C22_IndexGrowsByAnalyzeOnly ==
    [][ /\ AnalyzeCall =>
              LET c == commits[pos]
              IN  IF HasTokens(c)
                  THEN index' = Append(index, EntryOf(c))
                  ELSE index' = index /\ simOut'.score = 0
        /\ FindCall => index' = index
        /\ Len(index') >= Len(index)
        /\ SubSeq(index', 1, Len(index)) = index
      ]_vars

\* analyze has found a match for the third commit and has nevertheless
\* appended its entry, behind the two entries that were there; the second
\* commit had found none and had been appended too.
C22_Witness ==
    /\ simIn = [op |-> "analyze", place |-> 3]
    /\ simOut.score > 0
    /\ Len(index) = 3
    /\ index[3] = EntryOf(commits[3])
    /\ index[2] = EntryOf(commits[2])
    /\ ~DistanceWithin(HammingDistance(index[1].hash, index[2].hash),
                       SimilarityThreshold)

\* What find_duplicates reports for the k-th index entry when it is asked
\* about commit c.
ReportOf(c, k) ==
    [sha |-> ShortSha(index[k].sha), author |-> index[k].author,
     dist |-> DistanceTo(c, k)]

\* The places in the index of the entries of commit c itself.
OwnEntries(c) == {k \in 1..Len(index) : index[k].sha = c.sha}

\* The list is made of the reports of the entries of other commits, one
\* report for each of them.
ReportsOthersOnly(list, c) ==
    /\ Len(list) = Cardinality(Candidates(c))
    /\ \A k \in Candidates(c) :
           Cardinality({j \in 1..Len(list) : list[j] = ReportOf(c, k)})
               = Cardinality({j \in Candidates(c) :
                                ReportOf(c, j) = ReportOf(c, k)})

\* C23: a diff is never compared against itself: find_duplicates reports
\* entries of other commit ids only, and when the loop hands a commit to
\* analyze the index holds no entry of that commit, so no commit is
\* reported as a near-duplicate of itself.
C23_NeverComparedWithItself ==
    [][ /\ FindCall =>
              ReportsOthersOnly(matches', commits[simIn'.place])
        /\ AnalyzeCall =>
              /\ OwnEntries(commits[pos]) = {}
              /\ ReportsOthersOnly(matches', commits[pos])
      ]_vars

\* find_duplicates is asked about a commit that is in the index, where
\* another commit has the same fingerprint: it reports the other one only.
C23_Witness ==
    /\ simIn.op = "find_duplicates"
    /\ LET c == commits[simIn.place]
       IN  /\ OwnEntries(c) # {}
           /\ Len(matches) = 1
           /\ matches[1].dist = 0
           /\ \E k \in 1..Len(index) :
                  /\ index[k].sha # c.sha
                  /\ index[k].hash = index[CHOOSE j \in OwnEntries(c) : TRUE].hash
                  /\ ShortSha(index[k].sha) = ShortSha(c.sha)

\* The tokens of the diff of the commit with the given id.
TokensOfSha(sha) ==
    LET i == CHOOSE j \in 1..Len(commits) : commits[j].sha = sha
    IN  Diffs[GetCommitDiff(commits[i])].tokens

\* The index entries of other commits whose diffs have the tokens of c's.
SameTokenEntries(c) ==
    { k \in 1..Len(index) :
        /\ index[k].sha # c.sha
        /\ TokensOfSha(index[k].sha) = TokensOfSha(c.sha) }

\* C24: two distinct commits whose diffs yield the same list of at least 10
\* tokens have fingerprints at Hamming distance 0, that is similarity 1.0,
\* and the one analyzed second is reported as a match of the first and
\* gets a score of at least 0.8.
C24_SameTokensMatch ==
    [][ AnalyzeCall /\ HasTokens(commits[pos]) =>
          \A k \in SameTokenEntries(commits[pos]) :
              /\ DistanceTo(commits[pos], k) = 0
              /\ \E j \in 1..Len(matches') :
                     matches'[j] = ReportOf(commits[pos], k)
              /\ simOut'.score >= 80
      ]_vars

\* The third commit has been analyzed; the first has the same tokens in
\* another diff, the second is a less similar match.
C24_Witness ==
    /\ simIn = [op |-> "analyze", place |-> 3]
    /\ Len(index) = 3
    /\ TokensOfSha(index[1].sha) = TokensOfSha(index[3].sha)
    /\ GetCommitDiff(commits[1]) # GetCommitDiff(commits[3])
    /\ HammingDistance(index[2].hash, index[3].hash) > 0
    /\ Len(matches) = 2
    /\ simOut.score >= 80

\* The first two commits have been handed to analyze, the second one last,
\* and both have at least 10 tokens.
PairAnalyzed ==
    /\ simIn = [op |-> "analyze", place |-> 2]
    /\ HasTokens(commits[1])
    /\ HasTokens(commits[2])

\* What find_duplicates and analyze return for commit a on an index that
\* holds commit b only.
LookupIn(a, b) ==
    LET idx == <<EntryOf(b)>>
    IN  [matches |-> FindDuplicates(idx, a.sha, GetCommitDiff(a), seed),
         result |-> SimilarityResult(idx, a.sha, a.author, GetCommitDiff(a),
                                     seed)]

\* C25: for two commits with at least 10 tokens each, looking up the
\* second in an index that holds the first gives the similarity, and the
\* near-duplicate score, that looking up the first in an index that holds
\* the second gives.
C25_StableUnderInsertionOrder ==
    PairAnalyzed =>
        LET swapped == LookupIn(commits[1], commits[2])
        IN  /\ simOut.score = swapped.result.score
            /\ Len(matches) = Len(swapped.matches)
            /\ \A j \in 1..Len(matches) :
                   matches[j].dist = swapped.matches[j].dist

\* Two commits of two authors at similarity 1 - 9/64: a match, scored
\* 0.5 + 0.2.
C25_Witness ==
    /\ PairAnalyzed
    /\ commits[1].author # commits[2].author
    /\ Len(matches) = 1
    /\ matches[1].dist = 9
    /\ simOut.score = 70

\* ------------------------------------------------------------------------
\* Properties of the velocity pass (SpecVelocity)
\* ------------------------------------------------------------------------

VelocityDone == pc \in {"burst", "analyze"}

\* The places in commits of the earlier commits of the author of commit i;
\* commits is newest first.
EarlierOfAuthor(i) ==
    { j \in (i + 1)..Len(commits) : commits[j].author = commits[i].author }

\* The place of the commit of the same author immediately before commit i.
PrecedingOfAuthor(i) == CHOOSE j \in EarlierOfAuthor(i) : \A k \in EarlierOfAuthor(i) : j <= k

SecondsSincePreceding(i) == commits[i].time - commits[PrecedingOfAuthor(i)].time

\* v is the ratio lines / (seconds / 60).
IsLinesPerMinute(v, lines, seconds) == v.num * seconds = lines * 60 * v.den

\* C26: velocity is computed per author, oldest first: the first commit of
\* an author in the scanned window has velocity 0, and every later one has
\* its non-blank added lines divided by the minutes elapsed since the
\* commit of the same author immediately before it, whatever commits of
\* other authors lie in between.
C26_VelocityPerAuthor ==
    VelocityDone =>
        \A i \in 1..Len(commits) :
            LET v == velocities[commits[i].sha]
            IN  IF EarlierOfAuthor(i) = {} THEN v.num = 0
                ELSE IsLinesPerMinute(v, NonBlankLines(GetCommitDiff(commits[i])),
                                      SecondsSincePreceding(i))

\* The same, for the commits made later than the commit before them.
VelocityWhereTimeElapsed ==
    VelocityDone =>
        \A i \in 1..Len(commits) :
            LET v == velocities[commits[i].sha]
            IN  IF EarlierOfAuthor(i) = {} THEN v.num = 0
                ELSE SecondsSincePreceding(i) > 0 =>
                         IsLinesPerMinute(v, NonBlankLines(GetCommitDiff(commits[i])),
                                          SecondsSincePreceding(i))

\* A commit of an author follows, behind a commit of the other author, an
\* earlier commit of its own author.
VelocityAcrossInterleaving ==
    /\ VelocityDone
    /\ Len(commits) >= 3
    /\ commits[1].author = commits[3].author
    /\ commits[2].author # commits[1].author
    /\ commits[2].time > commits[3].time
    /\ commits[1].time > commits[2].time
    /\ velocities[commits[1].sha].num > 0

\* C27: every numeric edge case resolves to 0: a commit made zero minutes
\* after the commit of the same author before it has velocity 0, and the
\* fingerprint of an empty token list is 0.
C27_EdgeCasesResolveToZero ==
    /\ VelocityDone =>
           \A i \in 1..Len(commits) :
               (EarlierOfAuthor(i) # {} /\ SecondsSincePreceding(i) = 0) =>
                   velocities[commits[i].sha].num = 0
    /\ \A hashSeed \in Seeds : SimHash(<<>>, hashSeed) = {}

\* What the velocity pass stores for such a commit: its added lines.
ZeroMinutesGiveAddedLines ==
    VelocityDone =>
        \A i \in 1..Len(commits) :
            (EarlierOfAuthor(i) # {} /\ SecondsSincePreceding(i) = 0) =>
                velocities[commits[i].sha] =
                    Velocity(NonBlankLines(GetCommitDiff(commits[i])), 1)

\* ------------------------------------------------------------------------
\* Properties of analyze_structural_regularity (SpecStructural)
\* ------------------------------------------------------------------------

StructuralDone == pc = "structuralDone"

\* The sum of the signals that the measures of f trigger: 0.5 for a
\* coefficient of variation below 0.25 over more than 15 lines, or 0.25
\* for one below 0.35 over more than 20 lines; 0.2 for a range ratio below
\* 0.5 over more than 20 lines; 0.15 for at least 3 blank-line gaps with a
\* coefficient of variation below 0.3.
TriggeredSum(f) ==
      (IF f.cv < 25 /\ f.lines > 15 THEN 50
       ELSE IF f.cv >= 25 /\ f.cv < 35 /\ f.lines > 20 THEN 25
       ELSE 0)
    + (IF f.range < 50 /\ f.lines > 20 THEN 20 ELSE 0)
    + (IF f.gaps >= 3 /\ f.gapCv < 30 THEN 15 ELSE 0)

\* C28: analyze_structural_regularity returns score 0 with the
\* diff-too-small reason for a diff of fewer than 8 non-blank lines, a
\* score of at least 0.5 whenever the coefficient of variation is below
\* 0.25 over more than 15 non-blank lines, and always min(sum of the
\* triggered signals, 1.0), a score in [0, 1].
C28_StructuralScore ==
    StructuralDone =>
        /\ structIn.lines < 8 =>
               structOut = Res(0, <<"Diff too small for structural analysis">>)
        /\ (structIn.cv < 25 /\ structIn.lines > 15) => structOut.score >= 50
        /\ structIn.lines >= 8 =>
               structOut.score = Min(TriggeredSum(structIn), 100)
        /\ structOut.score \in 0..100

\* 16 lines of nearly one length: the first signal alone, score 0.5.
C28_Witness ==
    /\ StructuralDone
    /\ structIn.lines = 16
    /\ structIn.cv = 5
    /\ structOut = Res(50, <<"Abnormally uniform line lengths">>)

\* ------------------------------------------------------------------------
\* Thresholds of ScoreAggregator.compute (SpecAgg)
\* ------------------------------------------------------------------------

\* The number of sub-scores of the call that are at least k hundredths.
SubScoresAtLeast(k) == Cardinality({i \in 1..6 : AllScores(aggIn)[i] >= k})

OneStrongSignalAtTheBound ==
    /\ AggDone
    /\ aggIn.text.score = 50
    /\ SubScoresAtLeast(1) = 1
    /\ aggIn.velocity.num = 0
    /\ aggIn.burst = 0
    /\ aggOut.score = 35

\* ------------------------------------------------------------------------
\* The range of the reported scores (Spec)
\* ------------------------------------------------------------------------

\* C30: every score in the per-commit output of a scan lies in [0, 1],
\* after any sequence of commits, also when the adjudicator's answer, any
\* answer other than the sentinel -1, has replaced the aggregate score.
C30_ReportedScoresInRange ==
    \A i \in 1..Len(results) : results[i].score \in 0..100

\* The scores that were not replaced lie in [0, 1], and a replaced score is
\* the adjudicator's answer as it came.
ReportedScoreInRangeOrAdjudicated ==
    \A i \in 1..Len(results) :
        \/ results[i].score \in 0..100
        \/ \E k \in 1..Len(llmCalls) :
               /\ llmCalls[k].hash = results[i].hash
               /\ llmCalls[k].answer.score = results[i].score
               /\ llmCalls[k].answer.score # LlmNoOpinion

=============================================================================
